---- MODULE Spec2Model ----
(***************************************************************************)
(* A model of the orchestration engine of House of Collective              *)
(* Intelligence: the tool-directive parser (Council.parseTools), the       *)
(* context compaction at the start of Council.ask, the council fan-out,    *)
(* the chair tool loop with its permission checks, the secretary's JSON    *)
(* extraction (Council.extractJson) and the ConfigManager operations that  *)
(* add and remove agents.                                                  *)
(*                                                                         *)
(* Texts are sequences of atoms.  An atom is a run of characters no        *)
(* pattern of the code splits: the fence (three backticks, written        *)
(* "FENCE"), one whitespace character,                                     *)
(* a tag word, ":", "/", a path segment.  Positions are atom positions.    *)
(***************************************************************************)
EXTENDS Integers, Sequences, FiniteSets, TLC

VARIABLES
    text,            \* parser: the text handed to parseTools
    parseDone,       \* parser: parseTools has returned
    results,         \* parser: the local `results` at the return (index kept)
    parsed,          \* parser: the list parseTools returned
    rawJson,         \* scorer: the secretary's output handed to extractJson
    evalJson,        \* scorer: what extractJson returned
    config,          \* ConfigManager.config (AppConfig)
    messages,        \* HistoryManager.messages
    pc,              \* Council.ask: where the call stands
    signal,          \* Council.ask: signal.aborted
    chairAgent,      \* Council.ask: the id of the local chairAgent
    councilMembers,  \* Council.ask: the ids of the local councilMembers
    progress,        \* Council.ask: the events handed to onProgress in the
                     \* step just taken
    inflight,        \* Council.ask: the promises of the fan-out, by member
    delivered,       \* Council.ask: the responses handed to onCouncilResponse
    councilResponses,    \* Council.ask: the local councilResponses
    turn,            \* Council.ask: the local turn
    chairCalls,      \* the sendToProvider calls made for the chair
    finalChairResponse,  \* Council.ask: the local finalChairResponse
    toolsToRun,      \* Council.ask: the local toolsToRun of the last turn
    toolCalls,       \* the ToolManager methods invoked in the step just taken
    abortedAt,       \* the directive of the last turn whose ToolManager call was
                     \* running when the signal was raised, 0 when none was
    toolFailures,    \* the ToolManager methods that report an error in this run
    askResult,       \* what Council.ask returned
    send,            \* sendToProvider: the call's arguments, its position, the
                     \* local attempts, the attempts settled so far and what
                     \* the call returned
    scorer,          \* evaluateEfficiency: the position of the detached call,
                     \* its events and the updateAgentStats calls it made
    stats,           \* Council.stats: the AgentStats records by agent id
    statsFile,       \* the content of stats.json as saveStats last wrote it
    requests         \* Council.ask: the sendToProvider calls last issued, each
                     \* with its agent, its prompt and the number of history
                     \* messages it was handed

parseVars == <<text, parseDone, results, parsed>>
jsonVars == <<rawJson, evalJson>>
sendVars == <<send>>
scoreVars == <<scorer, stats, statsFile>>
reqVars == <<requests>>
pureVars == <<parseVars, jsonVars, sendVars, scoreVars, reqVars>>
fanVars == <<inflight, delivered, councilResponses>>
loopVars == <<turn, chairCalls, finalChairResponse, toolsToRun, toolCalls,
              abortedAt>>
askVars == <<pc, signal, chairAgent, councilMembers, progress, fanVars, loopVars,
             askResult>>

vars == <<pureVars, config, toolFailures, messages, askVars>>

----------------------------------------------------------------------------
(* Sequences *)

RECURSIVE Flatten(_)
Flatten(ss) == IF ss = <<>> THEN <<>> ELSE Head(ss) \o Flatten(Tail(ss))

SetMin(S) == CHOOSE x \in S : \A y \in S : x <= y
SetMax(S) == CHOOSE x \in S : \A y \in S : x >= y

\* s.includes(sub) on atom sequences
Includes(s, sub) ==
    \E i \in 1..(Len(s) - Len(sub) + 1) : SubSeq(s, i, i + Len(sub) - 1) = sub

----------------------------------------------------------------------------
(* Atoms and the classes the patterns of parseTools use *)

F  == "FENCE"
NL == "\n"
SP == " "

NoMatch == [type |-> "nomatch"]

\* \s of the regular expressions
IsWs(a) == a \in {SP, NL}

\* String.prototype.toLowerCase, and the /i flag of every pattern
LowerCase(a) ==
    CASE a = "BASH"        -> "bash"
      [] a = "TREE"        -> "tree"
      [] a = "PATH"        -> "path"
      [] a = "Example.COM" -> "example.com"
      [] a = "File.TXT"    -> "file.txt"
      [] a = "Shell"       -> "shell"
      [] a = "CMD"         -> "cmd"
      [] OTHER             -> a

LowerSeq(s) == [i \in 1..Len(s) |-> LowerCase(s[i])]

\* String.prototype.trim
RECURSIVE TrimLeft(_)
TrimLeft(s) == IF s # <<>> /\ IsWs(Head(s)) THEN TrimLeft(Tail(s)) ELSE s

RECURSIVE TrimRight(_)
TrimRight(s) ==
    IF s # <<>> /\ IsWs(s[Len(s)]) THEN TrimRight(SubSeq(s, 1, Len(s) - 1)) ELSE s

Trim(s) == TrimRight(TrimLeft(s))

\* the first position >= i that holds no whitespace (Len(t) + 1 when none)
RECURSIVE SkipWs(_, _)
SkipWs(t, i) == IF i <= Len(t) /\ IsWs(t[i]) THEN SkipWs(t, i + 1) ELSE i

\* the first fence at a position >= i, 0 when none
NextFence(t, i) ==
    LET S == {k \in i..Len(t) : t[k] = F}
    IN  IF S = {} THEN 0 ELSE SetMin(S)

\* the end of the line that starts at i: the first newline at >= i, or Len(t)+1
LineEnd(t, i) ==
    LET S == {k \in i..Len(t) : t[k] = NL}
    IN  IF S = {} THEN Len(t) + 1 ELSE SetMin(S)

----------------------------------------------------------------------------
(* Council.parseTools: the thirteen patterns *)

\* The tag literal of each pattern against the atom after the fence: whether
\* the pattern's tag matches a prefix of the atom.  An alternation takes its
\* first alternative that matches, so "shell" is matched by `sh` and
\* "terminal" by `term`; what is left of the atom starts the content.
TagOk(type, a) ==
    LET l == LowerCase(a)
    IN  CASE type = "command" ->
               l \in {"bash", "sh", "zsh", "command", "shell", "term",
                      "terminal", "console", "cmd", "bashrc"}
          [] type = "system_diagnostics" -> l = "system_diagnostics"
          [] type = "ios_config"         -> l = "ios:config"
          [] type = "edit"               -> l = "edit"
          [] type = "tree"               -> l = "tree"
          [] type = "search"             -> l = "search"
          [] type = "file"               -> l = "file"
          [] type = "read"               -> l \in {"read", "readme"}
          [] type = "browser_open"       -> l = "browser:open"
          [] type = "browser_act"        -> l = "browser:act"
          [] type = "browser_search"     -> l = "browser:search"
          [] type = "desktop_screenshot" -> l = "desktop:screenshot"
          [] type = "desktop_act"        -> l = "desktop:act"
          [] OTHER                       -> FALSE

TagRest(type, a) ==
    LET l == LowerCase(a)
    IN  CASE type = "command" /\ l = "shell"    -> <<"ell">>
          [] type = "command" /\ l = "terminal" -> <<"inal">>
          [] type = "command" /\ l = "bashrc"   -> <<"rc">>
          [] type = "read" /\ l = "readme"      -> <<"me">>
          [] OTHER                              -> <<>>

\* /```\s*TAG\s*([\s\S]*?)\s*```/ and, with optSep, /```\s*TAG[:\s]?\s*(...)/ :
\* the content runs to the first fence after the tag.
LazyMatchAt(type, optSep, t, i) ==
    LET j == SkipWs(t, i + 1)
    IN  IF ~(t[i] = F /\ j <= Len(t) /\ TagOk(type, t[j])) THEN NoMatch
        ELSE LET rest == TagRest(type, t[j])
                 s == IF optSep /\ rest = <<>> /\ j + 1 <= Len(t) /\ t[j + 1] = ":"
                      THEN j + 2 ELSE j + 1
                 k == NextFence(t, s)
             IN  IF k = 0 THEN NoMatch
                 ELSE [type |-> type, content |-> Trim(rest \o SubSeq(t, s, k - 1)),
                       arg |-> <<>>, index |-> i, end |-> k]

\* /```\s*system_diagnostics\s*```/
BareMatchAt(type, t, i) ==
    LET j == SkipWs(t, i + 1)
        k == SkipWs(t, j + 1)
    IN  IF t[i] = F /\ j <= Len(t) /\ TagOk(type, t[j]) /\ k <= Len(t) /\ t[k] = F
        THEN [type |-> type, content |-> <<>>, arg |-> <<>>, index |-> i, end |-> k]
        ELSE NoMatch

\* /```\s*TAG\s*(.*?)\s*```/ : the dot matches no newline, so what stands
\* between the tag and the first fence is one line, whitespace around it.
LineMatchAt(type, t, i) ==
    LET j == SkipWs(t, i + 1)
    IN  IF ~(t[i] = F /\ j <= Len(t) /\ TagOk(type, t[j])) THEN NoMatch
        ELSE LET k == NextFence(t, j + 1)
             IN  IF k = 0 THEN NoMatch
                 ELSE LET c == Trim(SubSeq(t, j + 1, k - 1))
                      IN  IF \E n \in 1..Len(c) : c[n] = NL THEN NoMatch
                          ELSE [type |-> type, content |-> c, arg |-> <<>>,
                                index |-> i, end |-> k]

\* /```\s*TAG[:\s]\s*(.*)\s*([\s\S]*?)\s*```/ : the greedy (.*) takes the rest
\* of its line when a fence follows the line, else it stops at the last fence
\* of the line; the content runs from there to the first fence.
GreedyMatchAt(type, t, i) ==
    LET j == SkipWs(t, i + 1)
    IN  IF ~(t[i] = F /\ j + 1 <= Len(t) /\ TagOk(type, t[j])
             /\ (t[j + 1] = ":" \/ IsWs(t[j + 1])))
        THEN NoMatch
        ELSE LET a == SkipWs(t, j + 2)
                 e == LineEnd(t, a)
                 after == NextFence(t, e)
                 inLine == {q \in a..(e - 1) : t[q] = F}
             IN  IF after = 0 /\ inLine = {} THEN NoMatch
                 ELSE LET argEnd == IF after # 0 THEN e ELSE SetMax(inLine)
                          k == IF after # 0 THEN after ELSE argEnd
                      IN  [type |-> type,
                           content |-> Trim(SubSeq(t, argEnd, k - 1)),
                           arg |-> Trim(SubSeq(t, a, argEnd - 1)),
                           index |-> i, end |-> k]

\* The patterns in the order parseTools declares and runs them.
Rules ==
    << [type |-> "command",            kind |-> "lazy",   optSep |-> FALSE, skipEmpty |-> FALSE],
       [type |-> "system_diagnostics", kind |-> "bare",   optSep |-> FALSE, skipEmpty |-> FALSE],
       [type |-> "ios_config",         kind |-> "lazy",   optSep |-> FALSE, skipEmpty |-> FALSE],
       [type |-> "edit",               kind |-> "greedy", optSep |-> FALSE, skipEmpty |-> FALSE],
       [type |-> "tree",               kind |-> "lazy",   optSep |-> TRUE,  skipEmpty |-> TRUE],
       [type |-> "search",             kind |-> "lazy",   optSep |-> TRUE,  skipEmpty |-> TRUE],
       [type |-> "file",               kind |-> "greedy", optSep |-> FALSE, skipEmpty |-> FALSE],
       [type |-> "read",               kind |-> "lazy",   optSep |-> TRUE,  skipEmpty |-> TRUE],
       [type |-> "browser_open",       kind |-> "lazy",   optSep |-> TRUE,  skipEmpty |-> FALSE],
       [type |-> "browser_act",        kind |-> "lazy",   optSep |-> FALSE, skipEmpty |-> FALSE],
       [type |-> "browser_search",     kind |-> "line",   optSep |-> FALSE, skipEmpty |-> FALSE],
       [type |-> "desktop_screenshot", kind |-> "line",   optSep |-> FALSE, skipEmpty |-> FALSE],
       [type |-> "desktop_act",        kind |-> "lazy",   optSep |-> FALSE, skipEmpty |-> FALSE] >>

ToolTypes == {Rules[n].type : n \in 1..Len(Rules)}

MatchAt(rule, t, i) ==
    CASE rule.kind = "lazy"   -> LazyMatchAt(rule.type, rule.optSep, t, i)
      [] rule.kind = "bare"   -> BareMatchAt(rule.type, t, i)
      [] rule.kind = "line"   -> LineMatchAt(rule.type, t, i)
      [] rule.kind = "greedy" -> GreedyMatchAt(rule.type, t, i)

\* while ((match = regex.exec(text)) !== null) results.push(...): the matches
\* of one pattern from position pos on, each search resuming after the last.
RECURSIVE ExecAll(_, _, _)
ExecAll(rule, t, pos) ==
    LET starts == {i \in pos..Len(t) : MatchAt(rule, t, i) # NoMatch}
    IN  IF starts = {} THEN <<>>
        ELSE LET m == MatchAt(rule, t, SetMin(starts))
                 r == [type |-> m.type, content |-> m.content, arg |-> m.arg,
                       index |-> m.index]
             IN  (IF rule.skipEmpty /\ m.content = <<>> THEN <<>> ELSE <<r>>)
                 \o ExecAll(rule, t, m.end + 1)

\* `results` after the thirteen loops, in push order
RECURSIVE Collect(_, _)
Collect(t, n) ==
    IF n > Len(Rules) THEN <<>> ELSE ExecAll(Rules[n], t, 1) \o Collect(t, n + 1)

\* results.sort((a, b) => a.index - b.index): Array.prototype.sort is stable
RECURSIVE Insert(_, _)
Insert(sorted, r) ==
    IF sorted = <<>> THEN <<r>>
    ELSE IF sorted[Len(sorted)].index <= r.index THEN Append(sorted, r)
         ELSE Append(Insert(SubSeq(sorted, 1, Len(sorted) - 1), r), sorted[Len(sorted)])

RECURSIVE InsertAll(_, _)
InsertAll(sorted, rs) ==
    IF rs = <<>> THEN sorted ELSE InsertAll(Insert(sorted, Head(rs)), Tail(rs))

\* a parser that returns the matches in push order (the sort left out)
SortByIndex_unsorted(rs) == rs

SortByIndex(rs) == InsertAll(<<>>, rs)

\* a filter that looks at the content only, never at the path argument
IsPlaceholder_contentOnly(r) ==
    LET p == LowerSeq(r.content)
    IN  \/ Includes(p, <<"path", "/", "to", "/">>)
        \/ Includes(p, <<"/", "path", "/", "to">>)
        \/ p = <<"file.txt">>
        \/ p = <<"example.com">>
        \/ Trim(r.content) = <<"...">>

\* the filter's predicate: an obvious placeholder or example
IsPlaceholder(r) ==
    LET p == LowerSeq(IF r.arg # <<>> THEN r.arg ELSE r.content)
    IN  \/ Includes(p, <<"path", "/", "to", "/">>)
        \/ Includes(p, <<"/", "path", "/", "to">>)
        \/ p = <<"file.txt">>
        \/ p = <<"example.com">>
        \/ Trim(r.content) = <<"...">>

\* results.filter(...): `results` at the return statement
RECURSIVE FilterPlaceholders(_)
FilterPlaceholders(rs) ==
    IF rs = <<>> THEN <<>>
    ELSE (IF IsPlaceholder(Head(rs)) THEN <<>> ELSE <<Head(rs)>>)
         \o FilterPlaceholders(Tail(rs))

FilteredResults(t) == FilterPlaceholders(SortByIndex(Collect(t, 1)))

\* .map(r => ({ type, content, arg })): the index is dropped
StripIndex(rs) ==
    [n \in 1..Len(rs) |-> [type |-> rs[n].type, content |-> rs[n].content,
                           arg |-> rs[n].arg]]

parseTools(t) == StripIndex(FilteredResults(t))

\* toolsRegex of getCleanHistory: a fence, a tool tag, and everything up to
\* the next fence; the tags are those of the thirteen patterns
RECURSIVE StripTools(_, _)
StripTools(t, i) ==
    IF i > Len(t) THEN <<>>
    ELSE LET j == SkipWs(t, i + 1)
             k == IF t[i] = F /\ j <= Len(t)
                     /\ \E type \in ToolTypes : TagOk(type, t[j])
                  THEN NextFence(t, j + 1) ELSE 0
         IN  IF k # 0 THEN <<"[Tool Executed]">> \o StripTools(t, k + 1)
             ELSE <<t[i]>> \o StripTools(t, i + 1)

\* Council.getCleanHistory(): the messages, the tool blocks of the
\* assistant's texts replaced (the texts here hold no efficiency block)
getCleanHistory(msgs) ==
    [n \in 1..Len(msgs) |->
        IF msgs[n].role = "assistant" /\ "text" \in DOMAIN msgs[n]
        THEN [msgs[n] EXCEPT !.text = StripTools(@, 1),
                             !.len = Len(StripTools(msgs[n].text, 1))]
        ELSE msgs[n]]

----------------------------------------------------------------------------
(* Council.extractJson and JSON.parse, character by character *)

LB == "{"
RB == "}"
Q  == "\""
BS == "\\"

Null == [null |-> TRUE]

\* JSON.parse: a value is a string or an object here.  A parse yields
\* [ok, val, next]: next is the position after the value.
Fail == [ok |-> FALSE, val |-> Null, next |-> 0]

\* the characters of a string from position i on, up to its closing quote
RECURSIVE ParseChars(_, _, _)
ParseChars(t, i, acc) ==
    IF i > Len(t) \/ t[i] = NL THEN Fail
    ELSE IF t[i] = Q THEN [ok |-> TRUE, val |-> [str |-> acc], next |-> i + 1]
    ELSE IF t[i] = BS
         THEN IF i + 1 <= Len(t) /\ t[i + 1] \in {Q, BS, "/", "n"}
              THEN ParseChars(t, i + 2,
                              Append(acc, IF t[i + 1] = "n" THEN NL ELSE t[i + 1]))
              ELSE Fail
    ELSE ParseChars(t, i + 1, Append(acc, t[i]))

ParseString(t, i) ==
    IF i <= Len(t) /\ t[i] = Q THEN ParseChars(t, i + 1, <<>>) ELSE Fail

RECURSIVE ParseValue(_, _)
RECURSIVE ParseMembers(_, _, _)

\* the members of an object from position i on (after "{" or ","), acc the
\* members read so far
ParseMembers(t, i, acc) ==
    LET k == ParseString(t, SkipWs(t, i))
    IN  IF ~k.ok THEN Fail
        ELSE LET c == SkipWs(t, k.next)
             IN  IF ~(c <= Len(t) /\ t[c] = ":") THEN Fail
                 ELSE LET v == ParseValue(t, c + 1)
                      IN  IF ~v.ok THEN Fail
                          ELSE LET e == SkipWs(t, v.next)
                                   members == Append(acc, <<k.val.str, v.val>>)
                               IN  IF e > Len(t) THEN Fail
                                   ELSE IF t[e] = RB
                                        THEN [ok |-> TRUE, val |-> [obj |-> members],
                                              next |-> e + 1]
                                   ELSE IF t[e] = ","
                                        THEN ParseMembers(t, e + 1, members)
                                   ELSE Fail

ParseValue(t, i) ==
    LET s == SkipWs(t, i)
    IN  IF s > Len(t) THEN Fail
        ELSE IF t[s] = Q THEN ParseString(t, s)
        ELSE IF t[s] = LB
             THEN LET a == SkipWs(t, s + 1)
                  IN  IF a <= Len(t) /\ t[a] = RB
                      THEN [ok |-> TRUE, val |-> [obj |-> <<>>], next |-> a + 1]
                      ELSE ParseMembers(t, s + 1, <<>>)
        ELSE Fail

\* JSON.parse(s): the value, or Fail when it throws
JsonParse(s) ==
    LET r == ParseValue(s, 1)
    IN  IF r.ok /\ SkipWs(s, r.next) > Len(s) THEN r ELSE Fail

\* try { return JSON.parse(potentialJson) } catch { return null }
ParseOrNull(s) == IF JsonParse(s).ok THEN JsonParse(s).val ELSE Null

\* a scan that counts every brace, those inside strings too
RECURSIVE ScanBraces_noStrings(_, _, _, _, _, _)
ScanBraces_noStrings(t, startIndex, i, braceCount, inString, escape) ==
    IF i > Len(t) THEN Null
    ELSE IF t[i] = LB
         THEN ScanBraces_noStrings(t, startIndex, i + 1, braceCount + 1, FALSE, FALSE)
    ELSE IF t[i] = RB
         THEN IF braceCount - 1 = 0
              THEN ParseOrNull(SubSeq(t, startIndex, i))
              ELSE ScanBraces_noStrings(t, startIndex, i + 1, braceCount - 1, FALSE, FALSE)
    ELSE ScanBraces_noStrings(t, startIndex, i + 1, braceCount, FALSE, FALSE)

\* the for loop of extractJson from character i on
RECURSIVE ScanBraces(_, _, _, _, _, _)
ScanBraces(t, startIndex, i, braceCount, inString, escape) ==
    IF i > Len(t) THEN Null
    ELSE IF escape THEN ScanBraces(t, startIndex, i + 1, braceCount, inString, FALSE)
    ELSE IF t[i] = BS THEN ScanBraces(t, startIndex, i + 1, braceCount, inString, TRUE)
    ELSE IF t[i] = Q
         THEN ScanBraces(t, startIndex, i + 1, braceCount, ~inString, FALSE)
    ELSE IF ~inString /\ t[i] = LB
         THEN ScanBraces(t, startIndex, i + 1, braceCount + 1, inString, FALSE)
    ELSE IF ~inString /\ t[i] = RB
         THEN IF braceCount - 1 = 0
              THEN ParseOrNull(SubSeq(t, startIndex, i))
              ELSE ScanBraces(t, startIndex, i + 1, braceCount - 1, inString, FALSE)
    ELSE ScanBraces(t, startIndex, i + 1, braceCount, inString, FALSE)

\* text.indexOf('{'), 0 for -1
IndexOfBrace(t) ==
    LET S == {i \in 1..Len(t) : t[i] = LB}
    IN  IF S = {} THEN 0 ELSE SetMin(S)

\* Council.extractJson(text)
extractJson(t) ==
    IF IndexOfBrace(t) = 0 THEN Null
    ELSE ScanBraces(t, IndexOfBrace(t), IndexOfBrace(t), 0, FALSE, FALSE)

----------------------------------------------------------------------------
(* ConfigManager and HistoryManager *)

Undefined == "undefined"

Providers == {"openai", "anthropic"}

PermissionFlags ==
    {"allow_browser", "allow_desktop", "allow_file_read", "allow_file_write",
     "allow_file_edit", "allow_command"}

\* the config of a ConfigManager that found no file: no keys, no agents,
\* autoCompact on, every permission granted
DefaultConfig ==
    [apiKeys |-> [p \in Providers |-> ""],
     agents |-> <<>>,
     chairAgentId |-> Undefined,
     secretaryAgentId |-> Undefined,
     autoCompact |-> TRUE,
     councilActive |-> TRUE,
     permissions |-> PermissionFlags]

\* getModelInfo(model)?.context: the pricing table's context window, 0 for a
\* model it does not know; updatePricing adds entries of any size
ModelContext(model) ==
    CASE model = "sonar"         -> 128000
      [] model = "small-context" -> 40
      [] model = "mid-context"   -> 2000
      [] model = "tight-context" -> 2100
      [] OTHER                   -> 0

\* estimateTokens(text) = Math.ceil(text.length / 2.5)
estimateTokens(len) == (2 * len + 4) \div 5

\* estimateTokens(m.text) + (m.images?.length || 0) * 1000
MsgTokens(m) == estimateTokens(m.len) + m.images * 1000

RECURSIVE TotalTokens(_)
TotalTokens(msgs) ==
    IF msgs = <<>> THEN 0 ELSE MsgTokens(Head(msgs)) + TotalTokens(Tail(msgs))

\* msgs.slice(-n)
SliceLast(msgs, n) ==
    IF n = 0 \/ n >= Len(msgs) THEN msgs
    ELSE SubSeq(msgs, Len(msgs) - n + 1, Len(msgs))

\* a compaction that keeps the oldest messages
compact_keepsOldest(msgs, keepCount) ==
    IF Len(msgs) > keepCount THEN SubSeq(msgs, 1, keepCount) ELSE msgs

\* HistoryManager.compact(keepCount): the messages it leaves
compact(msgs, keepCount) ==
    IF Len(msgs) > keepCount THEN SliceLast(msgs, keepCount) ELSE msgs

\* HistoryManager.add(msg)
HistoryAdd(m) ==
    /\ pc = "idle"
    /\ messages' = Append(messages, m)
    /\ UNCHANGED <<pureVars, config, toolFailures, askVars>>

\* HistoryManager.compact(keepCount)
HistoryCompact(keepCount) ==
    /\ pc = "idle"
    /\ messages' = compact(messages, keepCount)
    /\ UNCHANGED <<pureVars, config, toolFailures, askVars>>

\* HistoryManager.clear()
HistoryClear ==
    /\ pc = "idle"
    /\ messages' = <<>>
    /\ UNCHANGED <<pureVars, config, toolFailures, askVars>>

----------------------------------------------------------------------------
(* Council.ask, up to the first provider call *)

NoAgent == [id |-> Undefined]

\* a promise not settled yet, a rejected promise, and null
Pending == [pending |-> TRUE]
Rejected == [rejected |-> "Aborted"]
NoResponse == [none |-> TRUE]

\* the return value when no agent is enabled
NoAgentsResult ==
    [councilResponses |-> <<>>,
     chairResponse |-> [providerId |-> "system", text |-> <<"no_active_agents">>,
                        error |-> "No active agents"]]

EnabledAgents == SelectSeq(config.agents, LAMBDA a : a.enabled)

\* enabledAgents.find(a => a.id === currentChairAgentId), else enabledAgents[0]
ChairOf(enabled) ==
    LET hits == {n \in 1..Len(enabled) : enabled[n].id = config.chairAgentId}
    IN  IF config.chairAgentId # Undefined /\ hits # {} THEN enabled[SetMin(hits)]
        ELSE IF enabled # <<>> THEN enabled[1]
        ELSE NoAgent

\* a council that leaves out the chair only
MembersOf_withSecretary(enabled, chair) ==
    IF config.councilActive
    THEN LET ms == SelectSeq(enabled, LAMBDA a : a.id # chair.id)
         IN  [n \in 1..Len(ms) |-> ms[n].id]
    ELSE <<>>

\* the enabled agents that are neither the chair nor the secretary; nobody
\* when the council is switched off
MembersOf(enabled, chair) ==
    IF config.councilActive
    THEN LET ms == SelectSeq(enabled, LAMBDA a : a.id # chair.id
                                              /\ a.id # config.secretaryAgentId)
         IN  [n \in 1..Len(ms) |-> ms[n].id]
    ELSE <<>>

\* modelPrice?.context || 128000
ContextLimit(agent) ==
    IF ModelContext(agent.model) = 0 THEN 128000 ELSE ModelContext(agent.model)

\* Math.floor(contextLimit * 0.8) and Math.floor(contextLimit * 0.5)
SafeLimit(contextLimit) == (contextLimit * 8) \div 10
\* a compaction that stops as soon as the history is back under 80%
TargetTokens_safeLimit(contextLimit) == (contextLimit * 8) \div 10

TargetTokens(contextLimit) == contextLimit \div 2

\* a loop that tests the count before it drops the message, and so drops one
\* message more than is needed
RECURSIVE WalkOldest_testsFirst(_, _, _, _, _)
WalkOldest_testsFirst(msgs, i, currentTokens, keepCount, targetTokens) ==
    IF i > Len(msgs) THEN keepCount
    ELSE IF i > 1 /\ currentTokens <= targetTokens THEN keepCount - 1
    ELSE WalkOldest_testsFirst(msgs, i + 1, currentTokens - MsgTokens(msgs[i]),
                               keepCount - 1, targetTokens)

\* the loop that drops the oldest messages from the count until what is left
\* fits: keepCount when it ends (i is the next message to drop)
RECURSIVE WalkOldest(_, _, _, _, _)
WalkOldest(msgs, i, currentTokens, keepCount, targetTokens) ==
    IF i > Len(msgs) THEN keepCount
    ELSE LET c == currentTokens - MsgTokens(msgs[i])
         IN  IF c <= targetTokens THEN keepCount - 1
             ELSE WalkOldest(msgs, i + 1, c, keepCount - 1, targetTokens)

\* a compaction without the floor of five messages
KeepFloor_none(keepCount) == keepCount

\* keepCount = Math.max(keepCount, 5)
KeepFloor(keepCount) == IF keepCount > 5 THEN keepCount ELSE 5

KeepCount(msgs, contextLimit) ==
    KeepFloor(WalkOldest(msgs, 1, TotalTokens(msgs), Len(msgs),
                         TargetTokens(contextLimit)))

\* whether the automatic compaction runs
Compacts(msgs, chair) ==
    /\ config.autoCompact
    /\ chair # NoAgent
    /\ TotalTokens(msgs) > SafeLimit(ContextLimit(chair))

\* the history when the compaction block is left
AutoCompact(msgs, chair) ==
    IF Compacts(msgs, chair)
    THEN compact(msgs, KeepCount(msgs, ContextLimit(chair)))
    ELSE msgs

\* the info event of a compaction: "(totalTokens -> remainingTokens)"
CompactEvent(msgs, chair) ==
    [type |-> "info", message |-> "compact_auto",
     totalTokens |-> TotalTokens(msgs),
     remainingTokens |->
         TotalTokens(SliceLast(msgs, KeepCount(msgs, ContextLimit(chair))))]

\* a fan-out that hands the members the history with the question in it
WithoutCurrent_withCurrent(msgs) == Len(msgs)

\* this.getCleanHistory().slice(0, -1): how many messages the members get
WithoutCurrent(msgs) == Len(msgs) - 1

\* the prompt of a member's call: the question itself
MemberPrompt(q) == [kind |-> "question", question |-> q]

\* Council.ask(question) from its entry to the first await: roles, the
\* automatic compaction, the question saved, the early returns and the
\* members' calls, each with the history short of the question.
AskBegin(q) ==
    LET enabled == EnabledAgents
        chair == ChairOf(enabled)
        members == MembersOf(enabled, chair)
    IN  /\ pc = "idle"
        /\ messages' = Append(AutoCompact(messages, chair), q)
        /\ chairAgent' = chair.id
        /\ councilMembers' = members
        /\ progress' =
               (IF Compacts(messages, chair)
                THEN <<CompactEvent(messages, chair)>> ELSE <<>>)
               \o (IF enabled # <<>> /\ ~signal /\ members # <<>>
                   THEN <<[type |-> "step", message |-> "council_asking"]>>
                        \o [n \in 1..Len(members) |->
                               [type |-> "agent_thinking", agent |-> members[n]]]
                   ELSE IF enabled # <<>> /\ ~signal
                   THEN <<[type |-> "step", message |-> "chair_analyzing"]>>
                   ELSE <<>>)
        /\ inflight' = IF enabled # <<>> /\ ~signal
                       THEN [n \in 1..Len(members) |-> Pending] ELSE <<>>
        /\ askResult' = IF enabled = <<>> THEN NoAgentsResult ELSE NoResponse
        /\ pc' = IF enabled = <<>> THEN "done"
                 ELSE IF signal THEN "aborted"
                 ELSE IF members # <<>> THEN "council"
                 ELSE "turn"
        /\ requests' = IF pc' = "council"
                        THEN [n \in 1..Len(members) |->
                                 [to |-> members[n], prompt |-> MemberPrompt(q),
                                  upto |-> WithoutCurrent(messages')]]
                        ELSE <<>>
        /\ UNCHANGED <<parseVars, jsonVars, sendVars, scoreVars, config, toolFailures,
                       signal, delivered, councilResponses, loopVars>>

\* the state of the components a specification leaves alone
ParserParked ==
    text = <<>> /\ parseDone = FALSE /\ results = <<>> /\ parsed = <<>>

ScorerParked ==
    /\ rawJson = [prose |-> <<>>, tag |-> <<>>, json |-> <<>>, tail |-> <<>>]
    /\ evalJson = Pending

SendParked ==
    send = [pc |-> "idle", type |-> "openai", apiKey |-> "", attempts |-> 0,
            delays |-> 0, log |-> <<>>, result |-> NoResponse]

\* this.stats = {}
NoStats == [id \in {} |-> 0]

\* resetStats() at the start of the session (ui.ts) leaves no record, in
\* memory and in the file
ScoreParked ==
    /\ scorer = [pc |-> "idle", events |-> <<>>, stats |-> <<>>,
                 response |-> NoResponse, read |-> <<>>]
    /\ stats = NoStats
    /\ statsFile = NoStats

AskParked ==
    /\ SendParked
    /\ ScoreParked
    /\ requests = <<>>
    /\ pc = "idle"
    /\ signal = FALSE
    /\ chairAgent = Undefined
    /\ councilMembers = <<>>
    /\ progress = <<>>
    /\ inflight = <<>>
    /\ delivered = <<>>
    /\ councilResponses = <<>>
    /\ turn = 0
    /\ chairCalls = 0
    /\ finalChairResponse = NoResponse
    /\ toolsToRun = <<>>
    /\ toolCalls = <<>>
    /\ abortedAt = 0
    /\ askResult = NoResponse

----------------------------------------------------------------------------
(* The parser on its own: a text is put together from pieces, then parsed *)

MaxPieces == 3

Pieces ==
    { <<F, "BASH", NL, "ls", NL, F>>,
      <<F, "read", ":", "path", "/", "to", "/", "file", F>>,
      <<F, "read", ":", "/", "tmp", "/", "real.txt", F>>,
      <<F, "file", ":", "a.txt", NL, "...", NL, F>>,
      <<F, "file", ":", "File.TXT", F>>,
      <<F, "edit", SP, "/", "tmp", "/", "file.txt", NL, "/", "PATH", "/", "to", F>>,
      <<F, "tree", SP, "...", F>>,
      <<F, "browser:search", SP, "q", NL, "r", F>>,
      <<F, "browser:open", SP, "Example.COM", F>>,
      <<F, "system_diagnostics", F>>,
      <<F>>,
      <<"shell", SP, "ls">>,
      <<NL>> }

\* the texts of at most MaxPieces pieces
Texts == UNION {{Flatten(ps) : ps \in [1..n -> Pieces]} : n \in 0..MaxPieces}

ParseInit ==
    /\ text \in Texts
    /\ parseDone = FALSE
    /\ results = <<>>
    /\ parsed = <<>>
    /\ ScorerParked
    /\ config = DefaultConfig
    /\ messages = <<>>
    /\ AskParked
    /\ toolFailures = {}

\* Council.parseTools(text)
ParseTools ==
    /\ ~parseDone
    /\ parseDone' = TRUE
    /\ results' = FilteredResults(text)
    /\ parsed' = StripIndex(results')
    /\ UNCHANGED <<text, jsonVars, sendVars, scoreVars, reqVars, config, toolFailures, messages,
                   askVars>>

ParseNext == ParseTools

SpecParse == ParseInit /\ [][ParseNext]_vars

\* the place of a directive type in the declaration order of the patterns
RuleNo(type) == CHOOSE n \in 1..Len(Rules) : Rules[n].type = type

\* C4: parseTools returns the directives in strictly increasing source
\* position, whatever the order in which the patterns are declared and run.
C4_StrictSourceOrder ==
    parseDone =>
        /\ parsed = StripIndex(results)
        /\ \A a, b \in 1..Len(results) :
               a < b => results[a].index < results[b].index

\* C4 witness: two directives are returned, the first of them found by a
\* pattern that is declared and run after the pattern that found the second.
C4_Witness ==
    /\ parseDone
    /\ \E a, b \in 1..Len(parsed) :
           a < b /\ RuleNo(parsed[a].type) > RuleNo(parsed[b].type)

\* the claim's wording of a placeholder: the path argument if present,
\* otherwise the content, compared case-insensitively
C5_Argument(r) == LowerSeq(IF r.arg # <<>> THEN r.arg ELSE r.content)

C5_Dropped(r) ==
    \/ Includes(C5_Argument(r), <<"path", "/", "to", "/">>)
    \/ Includes(C5_Argument(r), <<"/", "path", "/", "to">>)
    \/ C5_Argument(r) \in {<<"file.txt">>, <<"example.com">>}
    \/ r.content = <<"...">>

RECURSIVE C5_Keep(_)
C5_Keep(rs) ==
    IF rs = <<>> THEN <<>>
    ELSE (IF C5_Dropped(Head(rs)) THEN <<>> ELSE <<Head(rs)>>) \o C5_Keep(Tail(rs))

\* C5: parseTools drops exactly the matched directives that are placeholders
\* and returns every other one in unchanged relative order; a read of
\* path/to/file yields nothing, a read of /tmp/real.txt one read directive.
C5_PlaceholdersDropped ==
    parseDone =>
        /\ parsed = StripIndex(C5_Keep(SortByIndex(Collect(text, 1))))
        /\ text = <<F, "read", ":", "path", "/", "to", "/", "file", F>>
               => parsed = <<>>
        /\ text = <<F, "read", ":", "/", "tmp", "/", "real.txt", F>>
               => parsed = << [type |-> "read", arg |-> <<>>,
                               content |-> <<"/", "tmp", "/", "real.txt">>] >>

\* C5 witness: of the matched directives one is dropped for its path argument
\* and another is returned.
C5_Witness ==
    /\ parseDone
    /\ parsed # <<>>
    /\ \E n \in 1..Len(Collect(text, 1)) :
           /\ Collect(text, 1)[n].arg # <<>>
           /\ C5_Dropped(Collect(text, 1)[n])

----------------------------------------------------------------------------
(* The automatic compaction: a history is built up, then a question asked *)

MaxHistory == 7

\* messages of 10, 1002 and 120000 estimated tokens
OldMessages ==
    { [role |-> "user",      kind |-> "old", len |-> 25,     images |-> 0],
      [role |-> "user",      kind |-> "old", len |-> 5,      images |-> 1],
      [role |-> "assistant", kind |-> "old", len |-> 300000, images |-> 0] }

Question == [role |-> "user", kind |-> "question", len |-> 25, images |-> 0]

Agent(id, provider, model, enabled) ==
    [id |-> id, providerType |-> provider, model |-> model, enabled |-> enabled]

CompactInit ==
    /\ ParserParked
    /\ ScorerParked
    /\ \E model \in {"unknown-model", "small-context", "mid-context"},
          auto \in BOOLEAN :
           config = [DefaultConfig EXCEPT
                        !.apiKeys = [p \in Providers |-> "key"],
                        !.agents = <<Agent("a1", "openai", model, TRUE)>>,
                        !.chairAgentId = "a1",
                        !.autoCompact = auto]
    /\ messages = <<>>
    /\ AskParked
    /\ toolFailures = {}

CompactNext ==
    \/ \E m \in OldMessages : Len(messages) < MaxHistory /\ HistoryAdd(m)
    \/ AskBegin(Question)

SpecCompact == CompactInit /\ [][CompactNext]_vars

\* the step in which Council.ask runs its compaction block
AskBeginStep == pc = "idle" /\ pc' # "idle"

\* the messages the compaction left (the question is appended after it)
Retained(msgs) == SubSeq(msgs, 1, Len(msgs) - 1)

\* C6: whatever the context limit and the size of the messages, the
\* automatic compaction of a history of more than 5 messages leaves at
\* least 5 of them.
C6_CompactionFloor ==
    [][(AskBeginStep /\ Len(messages) > 5) => Len(Retained(messages')) >= 5]_vars

\* C6 witness: a compaction has removed messages and left exactly five.
C6_Witness ==
    /\ pc # "idle"
    /\ Len(messages) = 5 + 1
    /\ \E n \in 1..Len(progress) :
           /\ progress[n].message = "compact_auto"
           /\ progress[n].remainingTokens < progress[n].totalTokens

\* C7: when the estimated total exceeds 0.8 x contextLimit, the compaction
\* leaves an estimated total of at most 0.5 x contextLimit, or else it leaves
\* just the 5 most recent messages.
C7_CompactionTarget ==
    [][(/\ AskBeginStep
        /\ config.autoCompact
        /\ ChairOf(EnabledAgents) # NoAgent
        /\ 10 * TotalTokens(messages) > 8 * ContextLimit(ChairOf(EnabledAgents)))
       => \/ 2 * TotalTokens(Retained(messages'))
                 <= ContextLimit(ChairOf(EnabledAgents))
          \/ Retained(messages') = SliceLast(messages, 5)]_vars

\* C7 witness: a compaction has left more than five messages, their
\* estimated total within half the context limit.
C7_Witness ==
    /\ pc # "idle"
    /\ Len(messages) > 5 + 1
    /\ \E n \in 1..Len(progress) :
           /\ progress[n].message = "compact_auto"
           /\ progress[n].remainingTokens < progress[n].totalTokens

----------------------------------------------------------------------------
(* Specification of the scorer's JSON extraction: the secretary's output is a
   JSON object inside a fenced block, with prose before and after it *)

MaxProse == 2

ProseAtoms == {"Here", SP, LB, RB, Q, BS}

Proses == UNION {[1..n -> ProseAtoms] : n \in 0..MaxProse}

Objects == {
    <<LB, Q, "a1", Q, ":", Q, "accepted", Q, RB>>,
    <<LB, NL, SP, Q, "a1", Q, ":", SP, Q, "accepted", Q, ",", NL, SP,
      Q, "a2", Q, ":", SP, Q, "rejected", Q, NL, RB>>,
    <<LB, Q, "a1", Q, ":", Q, RB, Q, RB>>,
    <<LB, Q, "a1", Q, ":", Q, BS, Q, LB, Q, RB>>,
    <<LB, Q, "a1", Q, ":", LB, Q, "a2", Q, ":", Q, "partial", Q, RB, RB>>,
    <<LB, RB>> }

Tails == {<<>>, <<NL, "Done">>, <<NL, RB, Q>>}

\* the text of the secretary's response
ResText(r) == r.prose \o <<F>> \o r.tag \o <<NL>> \o r.json \o <<NL, F>> \o r.tail

JsonInit ==
    /\ ParserParked
    /\ rawJson \in [prose : Proses, tag : {<<>>, <<"json">>}, json : Objects,
                    tail : Tails]
    /\ evalJson = Pending
    /\ config = DefaultConfig
    /\ messages = <<>>
    /\ AskParked
    /\ toolFailures = {}

\* evaluateEfficiency from the secretary's response on: extraction, then the
\* strict parse of the whole string as the last resort
EvaluateEfficiency ==
    LET raw == Trim(ResText(rawJson))
        extracted == extractJson(raw)
    IN  /\ evalJson = Pending
        /\ evalJson' = [extracted |-> extracted,
                        value |-> IF extracted # Null THEN extracted
                                  ELSE IF JsonParse(raw).ok THEN JsonParse(raw).val
                                  ELSE [error |-> "JSON Parse"]]
        /\ UNCHANGED <<parseVars, rawJson, sendVars, scoreVars, reqVars, config, toolFailures, messages,
                       askVars>>

JsonNext == EvaluateEfficiency

SpecJson == JsonInit /\ [][JsonNext]_vars

HasBrace(s) == \E i \in 1..Len(s) : s[i] = LB

----------------------------------------------------------------------------
(* Specification of the ConfigManager: keys, agents, chair and secretary *)

MaxAgents == 2

AgentIds == {"a1", "a2", "a3"}

HasAgent(c, id) == \E n \in 1..Len(c.agents) : c.agents[n].id = id

\* the chair was removed: undefined, then the first enabled agent if there is
\* one, else the first agent if there is one
ReassignChair(c) ==
    IF c.chairAgentId # Undefined /\ ~HasAgent(c, c.chairAgentId)
    THEN LET active == SelectSeq(c.agents, LAMBDA a : a.enabled)
         IN  [c EXCEPT !.chairAgentId =
                 IF c.agents = <<>> THEN Undefined
                 ELSE IF active # <<>> THEN active[1].id
                 ELSE c.agents[1].id]
    ELSE c

\* ConfigManager.validateAgents, run by load
validateAgents(c) ==
    LET kept == [c EXCEPT !.agents =
                    SelectSeq(c.agents, LAMBDA a : c.apiKeys[a.providerType] # "")]
        chaired == ReassignChair(kept)
    IN  IF Len(kept.agents) # Len(c.agents)
        THEN IF chaired.secretaryAgentId # Undefined
                /\ ~HasAgent(chaired, chaired.secretaryAgentId)
             THEN [chaired EXCEPT !.secretaryAgentId = Undefined]
             ELSE chaired
        ELSE c

\* ConfigManager.setApiKey(type, key)
setApiKey(c, type, key) ==
    LET keyed == [c EXCEPT !.apiKeys[type] = key]
        kept == [keyed EXCEPT !.agents =
                    SelectSeq(keyed.agents, LAMBDA a : a.providerType # type)]
    IN  IF key = ""
        THEN IF Len(kept.agents) # Len(keyed.agents) THEN ReassignChair(kept) ELSE kept
        ELSE keyed

\* ConfigManager.addAgent(data), id the fresh random id
addAgent(c, id, providerType, enabled) ==
    [c EXCEPT !.agents = Append(c.agents, Agent(id, providerType, "sonar", enabled))]

\* ConfigManager.removeAgent(id)
removeAgent(c, id) ==
    [c EXCEPT !.agents = SelectSeq(c.agents, LAMBDA a : a.id # id),
              !.chairAgentId = IF c.chairAgentId = id THEN Undefined ELSE @,
              !.secretaryAgentId = IF c.secretaryAgentId = id THEN Undefined ELSE @]

\* ConfigManager.setChairId(id)
setChairId(c, id) == [c EXCEPT !.chairAgentId = id]

\* ConfigManager.setSecretaryId(id)
setSecretaryId(c, id) == [c EXCEPT !.secretaryAgentId = id]

\* ConfigManager.getSecretaryId()
getSecretaryId(c) == c.secretaryAgentId

\* the config file the secretary test writes before it constructs the manager
SecretaryTestFile ==
    [DefaultConfig EXCEPT
        !.apiKeys = [p \in Providers |-> IF p = "openai" THEN "key" ELSE ""],
        !.agents = <<Agent("a1", "openai", "sonar", TRUE)>>,
        !.secretaryAgentId = "a1"]

ConfigInit ==
    /\ ParserParked
    /\ ScorerParked
    /\ config \in {DefaultConfig, validateAgents(SecretaryTestFile)}
    /\ messages = <<>>
    /\ AskParked
    /\ toolFailures = {}

ConfigStep(c) ==
    /\ pc = "idle"
    /\ config' = c
    /\ UNCHANGED <<pureVars, toolFailures, messages, askVars>>

SetApiKey == \E type \in Providers, key \in {"", "key"} :
    ConfigStep(setApiKey(config, type, key))

AddAgent == \E id \in AgentIds, type \in Providers, enabled \in BOOLEAN :
    /\ ~HasAgent(config, id)
    /\ Len(config.agents) < MaxAgents
    /\ ConfigStep(addAgent(config, id, type, enabled))

RemoveAgent == \E id \in AgentIds :
    /\ HasAgent(config, id)
    /\ ConfigStep(removeAgent(config, id))

SetChairId == \E id \in AgentIds :
    /\ HasAgent(config, id)
    /\ ConfigStep(setChairId(config, id))

SetSecretaryId == \E id \in AgentIds :
    /\ HasAgent(config, id)
    /\ ConfigStep(setSecretaryId(config, id))

ConfigNext == SetApiKey \/ AddAgent \/ RemoveAgent \/ SetChairId \/ SetSecretaryId

SpecConfig == ConfigInit /\ [][ConfigNext]_vars

\* C10: after a config operation that removes agents (setApiKey with an
\* empty key, removeAgent), getSecretaryId() is undefined or the id of an
\* agent that still exists.
C10_SecretaryExists ==
    [][Len(config'.agents) < Len(config.agents)
         => \/ getSecretaryId(config') = Undefined
            \/ HasAgent(config', getSecretaryId(config'))]_vars

----------------------------------------------------------------------------
(* Council.ask after its first provider call: the fan-out and the chair's
   tool loop *)

MAX_TURNS == 5

AgentOf(id) ==
    config.agents[CHOOSE n \in 1..Len(config.agents) : config.agents[n].id = id]

\* a ProviderResponse: text and no error, or an error and the empty text
OkResponse(id, t) == [providerId |-> id, text |-> t, error |-> ""]

\* a failure whose response carries a text next to the error
ErrorResponse_withText(id, msg) ==
    [providerId |-> id, text |-> <<"Done">>, error |-> msg]

\* return { providerId, model, text: '', error: msg }
ErrorResponse(id, msg) == [providerId |-> id, text |-> <<>>, error |-> msg]

\* sendToProvider without a key: the response it returns at once
NoKeyResponse(id) == ErrorResponse(id, "No API key")

\* ConfigManager.getPermissions(): the flags that are set (load always leaves
\* a permissions object, so the fallback object is never returned)
getPermissions(c) == c.permissions

\* the permission checks without the one for system_diagnostics
DenialOf_noDiagnostics(tool, perms) ==
    IF tool.type = "command" /\ "allow_command" \notin perms THEN "command"
    ELSE IF tool.type = "file" /\ "allow_file_write" \notin perms THEN "write"
    ELSE IF tool.type = "read" /\ "allow_file_read" \notin perms THEN "read"
    ELSE IF tool.type = "tree" /\ "allow_file_read" \notin perms THEN "read"
    ELSE IF tool.type = "search"
            /\ ("allow_file_read" \notin perms \/ "allow_command" \notin perms)
         THEN "read/command"
    ELSE IF tool.type \in {"browser_open", "browser_search", "browser_act"}
            /\ "allow_browser" \notin perms THEN "browser"
    ELSE IF tool.type \in {"desktop_screenshot", "desktop_act"}
            /\ "allow_desktop" \notin perms THEN "desktop"
    ELSE IF tool.type = "edit" /\ "allow_file_edit" \notin perms THEN "edit"
    ELSE IF tool.type = "ios_config" /\ "allow_file_edit" \notin perms
         THEN "ios_config"
    ELSE ""

\* the permission checks of the tool loop, in their order: what the
\* 'Permission denied (...)' event names, "" when the directive passes
DenialOf(tool, perms) ==
    IF tool.type = "command" /\ "allow_command" \notin perms THEN "command"
    ELSE IF tool.type = "file" /\ "allow_file_write" \notin perms THEN "write"
    ELSE IF tool.type = "read" /\ "allow_file_read" \notin perms THEN "read"
    ELSE IF tool.type = "tree" /\ "allow_file_read" \notin perms THEN "read"
    ELSE IF tool.type = "search"
            /\ ("allow_file_read" \notin perms \/ "allow_command" \notin perms)
         THEN "read/command"
    ELSE IF tool.type \in {"browser_open", "browser_search", "browser_act"}
            /\ "allow_browser" \notin perms THEN "browser"
    ELSE IF tool.type \in {"desktop_screenshot", "desktop_act"}
            /\ "allow_desktop" \notin perms THEN "desktop"
    ELSE IF tool.type = "edit" /\ "allow_file_edit" \notin perms THEN "edit"
    ELSE IF tool.type = "system_diagnostics" /\ "allow_command" \notin perms
         THEN "diagnostics"
    ELSE IF tool.type = "ios_config" /\ "allow_file_edit" \notin perms
         THEN "ios_config"
    ELSE ""

\* the ToolManager method the loop calls for a directive
Method(type) ==
    CASE type = "command"            -> "runCommand"
      [] type = "file"               -> "writeFile"
      [] type = "edit"               -> "editFile"
      [] type = "read"               -> "readFile"
      [] type = "tree"               -> "treeView"
      [] type = "search"             -> "searchSmart"
      [] type = "browser_open"       -> "browserOpen"
      [] type = "browser_search"     -> "browserSearch"
      [] type = "browser_act"        -> "browserAct"
      [] type = "desktop_screenshot" -> "desktopScreenshot"
      [] type = "desktop_act"        -> "desktopAct"
      [] type = "system_diagnostics" -> "runDiagnostics"
      [] type = "ios_config"         -> "iosConfig"

\* tool.content.split('=======').length === 2
EditFormatOk(content) ==
    Cardinality({n \in 1..Len(content) : content[n] = "======="}) = 1

\* a for loop that drops the res.error of a ToolManager call
ToolStep_dropsError(tool, perms) ==
    LET denial == DenialOf(tool, perms)
        start == [type |-> "tool_start", tool |-> tool.type]
    IN  IF denial # ""
        THEN [events |-> <<start, [type |-> "error",
                                   message |-> <<"Permission denied", denial>>]>>,
              calls |-> <<>>,
              outputs |-> <<[type |-> tool.type, says |-> "Permission denied"]>>]
        ELSE IF tool.type = "edit" /\ ~EditFormatOk(tool.content)
        THEN [events |-> <<start>>, calls |-> <<>>,
              outputs |-> <<[type |-> tool.type, says |-> "Invalid format"]>>]
        ELSE [events |-> <<start>>,
              calls |-> <<[method |-> Method(tool.type), type |-> tool.type]>>,
              outputs |-> <<[type |-> tool.type, says |-> "Result"]>>]

\* one directive of the for loop: the events, the ToolManager call if any,
\* and what the turn's output message says about it ("Error" stands for the
\* res.error of a ToolManager method that failed, "Result" for its output)
ToolStep(tool, perms) ==
    LET denial == DenialOf(tool, perms)
        start == [type |-> "tool_start", tool |-> tool.type]
    IN  IF denial # ""
        THEN [events |-> <<start, [type |-> "error",
                                   message |-> <<"Permission denied", denial>>]>>,
              calls |-> <<>>,
              outputs |-> <<[type |-> tool.type, says |-> "Permission denied"]>>]
        ELSE IF tool.type = "edit" /\ ~EditFormatOk(tool.content)
        THEN [events |-> <<start>>, calls |-> <<>>,
              outputs |-> <<[type |-> tool.type, says |-> "Invalid format"]>>]
        ELSE [events |-> <<start>>,
              calls |-> <<[method |-> Method(tool.type), type |-> tool.type]>>,
              outputs |-> <<[type |-> tool.type,
                             says |-> IF Method(tool.type) \in toolFailures
                                      THEN "Error" ELSE "Result"]>>]

NoTools == [events |-> <<>>, calls |-> <<>>, outputs |-> <<>>]

\* a for loop that a denial ends
RECURSIVE RunTools_stopAtDenial(_, _)
RunTools_stopAtDenial(tools, perms) ==
    IF tools = <<>> THEN NoTools
    ELSE LET h == ToolStep(Head(tools), perms)
             r == IF DenialOf(Head(tools), perms) # "" THEN NoTools
                  ELSE RunTools_stopAtDenial(Tail(tools), perms)
         IN  [events |-> h.events \o r.events, calls |-> h.calls \o r.calls,
              outputs |-> h.outputs \o r.outputs]

\* a for loop that takes the directives last to first
RECURSIVE RunTools_lastFirst(_, _)
RunTools_lastFirst(tools, perms) ==
    IF tools = <<>> THEN NoTools
    ELSE LET h == ToolStep(Head(tools), perms)
             r == RunTools_lastFirst(Tail(tools), perms)
         IN  [events |-> r.events \o h.events, calls |-> r.calls \o h.calls,
              outputs |-> r.outputs \o h.outputs]

\* for (const tool of toolsToRun)
RECURSIVE RunTools(_, _)
RunTools(tools, perms) ==
    IF tools = <<>> THEN NoTools
    ELSE LET h == ToolStep(Head(tools), perms)
             r == RunTools(Tail(tools), perms)
         IN  [events |-> h.events \o r.events, calls |-> h.calls \o r.calls,
              outputs |-> h.outputs \o r.outputs]

\* while (turn < MAX_TURNS), with the bound counted one too far
LoopContinues_offByOne(t) == t <= MAX_TURNS

\* while (turn < MAX_TURNS)
LoopContinues(t) == t < MAX_TURNS

\* Promise.all that hands the responses back in the order they arrived
PromiseAll_arrival(settled, arrived) == arrived

\* Promise.all(promises): the values in the order of the promises
PromiseAll(settled, arrived) == settled

\* what the chair's provider may answer: text with directives, text without,
\* a text whose only directive is a placeholder, and an error
ReplyTexts ==
    { <<"Done">>,
      <<F, "read", ":", "path", "/", "to", "/", "file", F>>,
      <<"Running", NL, F, "bash", NL, "ls", NL, F, NL,
        F, "file", ":", "a.txt", NL, "x", NL, F, NL,
        F, "read", ":", "b.txt", F, NL,
        F, "edit", SP, "c.txt", NL, "<<<<<<< SEARCH", NL, "x", NL, "=======", NL,
           "y", NL, ">>>>>>>", NL, F, NL,
        F, "tree", SP, "src", F, NL,
        F, "search", SP, "foo", SP, "src", F, NL,
        F, "system_diagnostics", F>>,
      <<F, "browser:open", SP, "site.org", F, NL,
        F, "browser:search", SP, "q", F, NL,
        F, "browser:act", SP, "click", F, NL,
        F, "desktop:screenshot", SP, "s.png", F, NL,
        F, "desktop:act", SP, "type", F, NL,
        F, "ios:config", SP, "list", F, NL,
        F, "edit", SP, "c.txt", NL, "y", NL, F>> }

ChairResponses(id) ==
    {OkResponse(id, t) : t \in ReplyTexts}
        \cup {ErrorResponse(id, "Request failed with status code 401")}

\* this.parseTools(text) for every text the chair may answer, worked out once
RECURSIVE ParsedTable(_)
ParsedTable(S) ==
    IF S = {} THEN <<>>
    ELSE LET t == CHOOSE x \in S : TRUE
             v == parseTools(t)
         IN  (t :> [n \in 1..Len(v) |-> v[n]]) @@ ParsedTable(S \ {t})

ParsedReplies == ParsedTable(ReplyTexts \cup {<<>>})

\* a cancellation that also drops the history
Abort_dropsHistory ==
    /\ pc \in {"idle", "council", "turn", "awaiting"}
    /\ ~signal
    /\ signal' = TRUE
    /\ messages' = <<>>
    /\ progress' = <<>>
    /\ toolCalls' = <<>>
    /\ UNCHANGED <<pureVars, config, toolFailures, pc, chairAgent, councilMembers,
                   fanVars, turn, chairCalls, finalChairResponse, toolsToRun,
                   abortedAt, askResult>>

\* the abort signal fires while the call is in flight or a tool is running
Abort ==
    /\ pc \in {"idle", "council", "turn", "awaiting"}
    /\ ~signal
    /\ signal' = TRUE
    /\ progress' = <<>>
    /\ toolCalls' = <<>>
    /\ UNCHANGED <<pureVars, config, toolFailures, messages, pc, chairAgent, councilMembers,
                   fanVars, turn, chairCalls, finalChairResponse, toolsToRun, abortedAt,
                   askResult>>

\* a fan-out whose Promise.all is never settled by the last response
MemberReply_neverSettles(n) ==
    /\ pc = "council"
    /\ n \in 1..Len(inflight)
    /\ inflight[n] = Pending
    /\ \E ok \in BOOLEAN :
        LET id == councilMembers[n]
            response == IF ok THEN OkResponse(id, <<"opinion", id>>)
                        ELSE ErrorResponse(id, "Request failed with status code 500")
        IN  /\ inflight' = [inflight EXCEPT ![n] = response]
            /\ delivered' = Append(delivered, response)
            /\ progress' = <<[type |-> "agent_response", agent |-> id]>>
    /\ toolCalls' = <<>>
    /\ UNCHANGED <<pureVars, config, toolFailures, messages, pc, signal, chairAgent,
                   councilMembers, councilResponses, turn, chairCalls,
                   finalChairResponse, toolsToRun, abortedAt, askResult>>

\* a member's sendToProvider call settles; the last one settles Promise.all
MemberReply(n) ==
    /\ pc = "council"
    /\ n \in 1..Len(inflight)
    /\ inflight[n] = Pending
    /\ \E ok \in BOOLEAN :
        LET id == councilMembers[n]
            key == config.apiKeys[AgentOf(id).providerType]
            thrown == key # "" /\ signal
            response == IF key = "" THEN NoKeyResponse(id)
                        ELSE IF ok THEN OkResponse(id, <<"opinion", id>>)
                        ELSE ErrorResponse(id, "Request failed with status code 500")
            settled == [inflight EXCEPT ![n] = IF thrown THEN Rejected ELSE response]
            all == \A m \in 1..Len(settled) : settled[m] # Pending
        IN  /\ inflight' = settled
            /\ delivered' = IF thrown THEN delivered ELSE Append(delivered, response)
            /\ councilResponses' = IF ~thrown /\ all
                                   THEN PromiseAll(settled, delivered')
                                   ELSE councilResponses
            /\ progress' =
                   IF thrown THEN <<>>
                   ELSE <<[type |-> "agent_response", agent |-> id]>>
                        \o (IF all /\ ~signal
                            THEN <<[type |-> "step", message |-> "chair_analyzing"]>>
                            ELSE <<>>)
            /\ pc' = IF thrown \/ (all /\ signal) THEN "aborted"
                     ELSE IF all THEN "turn" ELSE "council"
    /\ toolCalls' = <<>>
    /\ UNCHANGED <<pureVars, config, toolFailures, messages, signal, chairAgent, councilMembers,
                   turn, chairCalls, finalChairResponse, toolsToRun, abortedAt, askResult>>

MAX_AGENT_CHARS == 4000

\* text.substring(0, MAX_AGENT_CHARS) + the note that it was cut
Truncate(t) ==
    IF Len(t) > MAX_AGENT_CHARS
    THEN Append(SubSeq(t, 1, MAX_AGENT_CHARS), "[truncated]")
    ELSE t

\* the label of an opinion: the member's name and id, the providerId of the
\* response when councilMembers holds no such member
OpinionLabel(r, members) ==
    IF \E n \in 1..Len(members) : members[n] = r.providerId
    THEN [name |-> AgentOf(r.providerId).id, id |-> r.providerId]
    ELSE [name |-> r.providerId]

\* a context that also lists the responses that carry an error
ChairOpinions_withErrors(responses, members) ==
    [n \in 1..Len(responses) |->
        [label |-> OpinionLabel(responses[n], members),
         text |-> Truncate(responses[n].text)]]

\* councilResponses.forEach(r => { if (!r.error) ... }): the opinions of
\* contextForChair, in the order of councilResponses
ChairOpinions(responses, members) ==
    LET heard == SelectSeq(responses, LAMBDA r : r.error = "")
    IN  [n \in 1..Len(heard) |->
            [label |-> OpinionLabel(heard[n], members),
             text |-> Truncate(heard[n].text)]]

\* the chair's call of the turn: contextForChair with the question and the
\* opinions and the history short of the question on the first turn, the
\* request to go on and the whole history on the later ones
ChairRequest ==
    << [to |-> chairAgent,
        prompt |-> IF turn = 0
                   THEN [kind |-> "context", question |-> messages[Len(messages)],
                         opinions |-> ChairOpinions(councilResponses, councilMembers)]
                   ELSE [kind |-> "continue"],
        upto |-> IF turn = 0 THEN Len(messages) - 1 ELSE Len(messages)] >>

\* a loop that runs the compaction block again at the top of every turn
ChairCall_compacts ==
    /\ pc = "turn"
    /\ pc' = IF signal THEN "aborted" ELSE "awaiting"
    /\ chairCalls' = IF signal THEN chairCalls ELSE chairCalls + 1
    /\ messages' = AutoCompact(messages, AgentOf(chairAgent))
    /\ requests' = IF signal THEN requests ELSE ChairRequest
    /\ progress' = <<>>
    /\ toolCalls' = <<>>
    /\ UNCHANGED <<parseVars, jsonVars, sendVars, scoreVars, config, toolFailures, signal, chairAgent, councilMembers,
                   fanVars, turn, finalChairResponse, toolsToRun, abortedAt, askResult>>

\* a loop whose turns start without the abort check
ChairCall_noAbortCheck ==
    /\ pc = "turn"
    /\ pc' = "awaiting"
    /\ chairCalls' = chairCalls + 1
    /\ requests' = ChairRequest
    /\ progress' = <<>>
    /\ toolCalls' = <<>>
    /\ UNCHANGED <<parseVars, jsonVars, sendVars, scoreVars, config, toolFailures, messages, signal, chairAgent,
                   councilMembers, fanVars, turn, finalChairResponse, toolsToRun,
                   abortedAt, askResult>>

\* the top of the loop: the abort check, then the chair's sendToProvider call
ChairCall ==
    /\ pc = "turn"
    /\ pc' = IF signal THEN "aborted" ELSE "awaiting"
    /\ chairCalls' = IF signal THEN chairCalls ELSE chairCalls + 1
    /\ requests' = IF signal THEN requests ELSE ChairRequest
    /\ progress' = <<>>
    /\ toolCalls' = <<>>
    /\ UNCHANGED <<parseVars, jsonVars, sendVars, scoreVars, config, toolFailures, messages, signal, chairAgent, councilMembers,
                   fanVars, turn, finalChairResponse, toolsToRun, abortedAt, askResult>>

\* the history entries of a turn
AssistantMessage(reply) ==
    [role |-> "assistant", kind |-> "reply", len |-> Len(reply.text), images |-> 0,
     text |-> reply.text, providerId |-> reply.providerId]

\* the tool output appended as a message of the assistant
ToolOutputMessage_asAssistant(n, outputs, images) ==
    [role |-> "assistant", kind |-> "tool_output", len |-> 100, images |-> images,
     turn |-> n, outputs |-> outputs]

\* history.add({role: 'user', text: toolOutputMsg + ..., images})
ToolOutputMessage(n, outputs, images) ==
    [role |-> "user", kind |-> "tool_output", len |-> 100, images |-> images,
     turn |-> n, outputs |-> outputs]

\* the background evaluation starts when a secretary is set and the council
\* answered: its first event
SecretaryEvent ==
    IF config.councilActive /\ config.secretaryAgentId # Undefined
       /\ councilResponses # <<>> /\ HasAgent(config, config.secretaryAgentId)
    THEN <<[type |-> "info", message |-> "status_secretary"]>>
    ELSE <<>>

\* this.evaluateEfficiency(...).catch(...): the call is made and not awaited;
\* it returns at once when the secretary is no agent of the config
StartScorer ==
    IF config.councilActive /\ config.secretaryAgentId # Undefined
       /\ councilResponses # <<>>
    THEN [pc |-> IF HasAgent(config, config.secretaryAgentId) THEN "running"
                 ELSE "settled",
          events |-> SecretaryEvent, stats |-> <<>>, response |-> NoResponse,
          read |-> <<>>]
    ELSE scorer

\* the loop awaits a ToolManager call for the directive
Executes(tool, perms) ==
    /\ DenialOf(tool, perms) = ""
    /\ tool.type = "edit" => EditFormatOk(tool.content)

\* the signal is raised, if during a turn's tool calls, during one of the
\* first AbortPoints of them
AbortPoints == 1

\* 0: the signal is not raised during the turn's tool calls
AbortChoices(tools, perms, raised) ==
    {0} \cup (IF raised THEN {}
              ELSE {at \in 1..Len(tools) :
                       /\ Executes(tools[at], perms)
                       /\ Cardinality({n \in 1..at : Executes(tools[n], perms)})
                              <= AbortPoints})

\* the turn's outputs when the signal is raised while the call of directive
\* at is running: runCommand is the one method that is handed the signal,
\* and it reports 'Command aborted by user.'
OutputsWhenAborted(tools, outputs, at) ==
    IF at # 0 /\ tools[at].type = "command"
    THEN [outputs EXCEPT ![at].says = "Command aborted by user."]
    ELSE outputs

\* the chair's call settles: the reply is parsed, its directives are checked
\* and run, the history is extended, and the loop goes on or the ask returns
ChairReply ==
    /\ pc = "awaiting"
    /\ \E r \in ChairResponses(chairAgent), attached \in BOOLEAN :
        LET key == config.apiKeys[AgentOf(chairAgent).providerType]
            thrown == key # "" /\ signal
            reply == IF key = "" THEN NoKeyResponse(chairAgent) ELSE r
        IN  IF thrown
            THEN /\ ~attached
                 /\ pc' = "aborted"
                 /\ progress' = <<>>
                 /\ toolCalls' = <<>>
                 /\ UNCHANGED <<messages, signal, turn, finalChairResponse,
                                toolsToRun, abortedAt, askResult>>
            ELSE /\ finalChairResponse' = reply
                 /\ toolsToRun' = ParsedReplies[reply.text]
                 /\ LET ran == RunTools(toolsToRun', getPermissions(config))
                    IN  /\ toolCalls' = ran.calls
                        /\ attached =>
                               /\ "desktopScreenshot" \notin toolFailures
                               /\ \E n \in 1..Len(toolCalls') :
                                      toolCalls'[n].method = "desktopScreenshot"
                        /\ \E at \in AbortChoices(toolsToRun', getPermissions(config),
                                                 signal) :
                               /\ abortedAt' = at
                               /\ signal' = (signal \/ at # 0)
                               /\ messages' =
                                      IF toolsToRun' = <<>>
                                      THEN Append(messages, AssistantMessage(reply))
                                      ELSE messages \o
                                           <<AssistantMessage(reply),
                                             ToolOutputMessage(turn + 1,
                                                 OutputsWhenAborted(toolsToRun',
                                                                    ran.outputs, at),
                                                 IF attached THEN 1 ELSE 0)>>
                        /\ progress' =
                               (IF toolsToRun' = <<>> THEN <<>>
                                ELSE <<[type |-> "step", message |-> "tool_executing",
                                        count |-> Len(toolsToRun')]>> \o ran.events)
                               \o (IF toolsToRun' # <<>> /\ LoopContinues(turn + 1)
                                   THEN <<>> ELSE SecretaryEvent)
                 /\ turn' = IF toolsToRun' = <<>> THEN turn ELSE turn + 1
                 /\ pc' = IF toolsToRun' # <<>> /\ LoopContinues(turn') THEN "turn"
                          ELSE "done"
                 /\ askResult' =
                        IF pc' = "turn" THEN askResult
                        ELSE [councilResponses |-> councilResponses,
                              chairResponse |-> reply]
    /\ scorer' = IF pc' = "done" THEN StartScorer ELSE scorer
    /\ UNCHANGED <<parseVars, jsonVars, sendVars, reqVars, config, toolFailures, chairAgent,
                   councilMembers, fanVars, chairCalls, stats, statsFile>>

\* what the secretary's provider may answer: an error, a clean object, an
\* object in a fenced block after prose, an object without a verdict, and a
\* text that is no JSON
SecretaryResponses(id) ==
    { ErrorResponse(id, "Request failed with status code 500"),
      OkResponse(id, <<LB, Q, "a2", Q, ":", Q, "accepted", Q, ",", SP,
                       Q, "a3", Q, ":", Q, "rejected", Q, RB>>),
      OkResponse(id, <<"Here", NL, F, "json", NL, LB, Q, "a1", Q, ":", SP,
                       Q, "partial", Q, RB, NL, F>>),
      OkResponse(id, <<LB, Q, "a2", Q, ":", LB, Q, "a3", Q, ":", Q, "partial", Q,
                       RB, ",", Q, "a1", Q, ":", Q, "unsure", Q, RB>>),
      OkResponse(id, <<"Done">>),
      OkResponse(id, <<LB, Q, "a2", Q, ":">>) }

Verdicts == {<<"accepted">>, <<"partial">>, <<"rejected">>}

\* the record getStats creates
ZeroStats ==
    [totalSuggestions |-> 0, acceptedSuggestions |-> 0,
     partiallyAcceptedSuggestions |-> 0, rejectedSuggestions |-> 0]

\* Council.getStats(agentId): this.stats after the call, with a record of
\* zeros put in when the agent had none
getStats(s, agentId) ==
    IF agentId \in DOMAIN s THEN s ELSE (agentId :> ZeroStats) @@ s

\* an update that counts a partial verdict as an accepted one as well
updateAgentStats_partialAsAccepted(s, agentId, result) ==
    [getStats(s, agentId) EXCEPT ![agentId] =
        [@ EXCEPT !.totalSuggestions = @ + 1,
                  !.acceptedSuggestions =
                      IF result \in {"accepted", "partial"} THEN @ + 1 ELSE @,
                  !.partiallyAcceptedSuggestions =
                      IF result = "partial" THEN @ + 1 ELSE @,
                  !.rejectedSuggestions =
                      IF result = "rejected" THEN @ + 1 ELSE @]]

\* Council.updateAgentStats(agentId, result): this.stats after the call
updateAgentStats(s, agentId, result) ==
    [getStats(s, agentId) EXCEPT ![agentId] =
        [@ EXCEPT !.totalSuggestions = @ + 1,
                  !.acceptedSuggestions =
                      IF result = "accepted" THEN @ + 1 ELSE @,
                  !.partiallyAcceptedSuggestions =
                      IF result = "partial" THEN @ + 1 ELSE @,
                  !.rejectedSuggestions =
                      IF result = "rejected" THEN @ + 1 ELSE @]]

\* the key of an entry as an agent id, and its verdict: both are texts of
\* one atom
IdOf(entry) == entry[1][1]
VerdictOf(entry) == entry[2].str[1]

\* the loop over the entries: this.stats after the updateAgentStats calls,
\* each of which ends with saveStats
RECURSIVE CountVerdicts(_, _)
CountVerdicts(s, entries) ==
    IF entries = <<>> THEN s
    ELSE CountVerdicts(updateAgentStats(s, IdOf(Head(entries)),
                                        VerdictOf(Head(entries))),
                       Tail(entries))

\* a loop that counts every entry whose value is a string
StatUpdates_anyString(value) ==
    IF "obj" \in DOMAIN value
    THEN SelectSeq(value.obj, LAMBDA e : "str" \in DOMAIN e[2])
    ELSE <<>>

\* for (const [agentId, result] of Object.entries(evalJson)): the
\* updateAgentStats calls, in the order of the entries
StatUpdates(value) ==
    IF "obj" \in DOMAIN value
    THEN SelectSeq(value.obj,
                   LAMBDA e : "str" \in DOMAIN e[2] /\ e[2].str \in Verdicts)
    ELSE <<>>

\* the detached evaluation settles and its failure is thrown into the ask
SecretaryReply_propagates ==
    /\ scorer.pc = "running"
    /\ \E res \in SecretaryResponses(config.secretaryAgentId) :
        LET raw == Trim(res.text)
            extracted == extractJson(raw)
            failed == raw # <<>> /\ extracted = Null /\ ~JsonParse(raw).ok
        IN  /\ scorer' = [pc |-> "settled", events |-> <<>>, stats |-> <<>>,
                              response |-> res, read |-> <<>>]
            /\ pc' = IF failed THEN "aborted" ELSE pc
            /\ askResult' = IF failed THEN NoResponse ELSE askResult
    /\ progress' = <<>>
    /\ toolCalls' = <<>>
    /\ UNCHANGED <<stats, statsFile>>
    /\ UNCHANGED <<parseVars, jsonVars, sendVars, reqVars, config, toolFailures, messages,
                   signal, chairAgent, councilMembers, fanVars, turn, chairCalls,
                   finalChairResponse, toolsToRun, abortedAt>>

\* the sendToProvider call of the detached evaluateEfficiency settles: the
\* empty text ends it, the object is extracted or the whole text parsed, the
\* verdicts are counted, and a failure becomes an error event
SecretaryReply ==
    /\ scorer.pc = "running"
    /\ \E res \in SecretaryResponses(config.secretaryAgentId) :
        LET key == config.apiKeys[AgentOf(config.secretaryAgentId).providerType]
            reply == IF key = "" THEN NoKeyResponse(config.secretaryAgentId)
                     ELSE res
            raw == Trim(reply.text)
        IN  \E extracted \in {extractJson(raw)} :
            \E whole \in {IF extracted = Null THEN JsonParse(raw) ELSE Fail} :
                LET value == IF extracted # Null THEN extracted ELSE whole.val
                    failed == raw # <<>> /\ extracted = Null /\ ~whole.ok
                IN  /\ scorer' =
                           [pc |-> "settled",
                            events |-> IF failed
                                       THEN <<[type |-> "error",
                                               message |-> "Secretary error"]>>
                                       ELSE <<>>,
                            stats |-> IF raw = <<>> \/ failed THEN <<>>
                                      ELSE StatUpdates(value),
                            response |-> reply,
                            read |-> IF raw # <<>> /\ "obj" \in DOMAIN value
                                     THEN value.obj ELSE <<>>]
                    /\ progress' = scorer'.events
    /\ stats' = CountVerdicts(stats, scorer'.stats)
    /\ statsFile' = IF scorer'.stats = <<>> THEN statsFile ELSE stats'
    /\ toolCalls' = <<>>
    /\ UNCHANGED <<parseVars, jsonVars, sendVars, reqVars, config, toolFailures, messages, pc,
                   signal, chairAgent, councilMembers, fanVars, turn, chairCalls,
                   finalChairResponse, toolsToRun, abortedAt, askResult>>

----------------------------------------------------------------------------
(* Specification of Council.ask: one question, asked of a lone chair under
   every permission set, or of a chair with a council of three *)

AllKeys == [p \in Providers |-> "key"]

\* a lone chair, with or without its key, under the permissions perms
ChairOnly(perms, key) ==
    [DefaultConfig EXCEPT
        !.apiKeys = [AllKeys EXCEPT !["openai"] = key],
        !.agents = <<Agent("a1", "openai", "sonar", TRUE)>>,
        !.chairAgentId = "a1",
        !.permissions = perms]

\* a chair and three members, the second member with or without its key
ChairAndCouncil(key) ==
    [DefaultConfig EXCEPT
        !.apiKeys = [AllKeys EXCEPT !["anthropic"] = key],
        !.agents = <<Agent("a1", "openai", "sonar", TRUE),
                     Agent("a2", "openai", "sonar", TRUE),
                     Agent("a3", "anthropic", "sonar", TRUE),
                     Agent("a4", "openai", "sonar", TRUE)>>,
        !.chairAgentId = "a1"]

\* every ToolManager method the loop calls
Methods == {Method(type) : type \in ToolTypes}

\* the methods that can return an error: runDiagnostics puts every failure
\* into its report and returns no error
FailingMethods == Methods \ {"runDiagnostics"}

\* the runs in which tools fail: one method fails, or all of them do
FailureSets == {{m} : m \in FailingMethods} \cup {FailingMethods}

Init ==
    /\ ParserParked
    /\ ScorerParked
    /\ \/ /\ config \in {ChairOnly(perms, key) :
                              perms \in SUBSET PermissionFlags, key \in {"key", ""}}
                         \cup {ChairAndCouncil(key) : key \in {"key", ""}}
          /\ toolFailures = {}
       \/ /\ config = ChairOnly(PermissionFlags, "key")
          /\ toolFailures \in FailureSets
    /\ messages = <<>>
    /\ AskParked

Next ==
    \/ AskBegin(Question)
    \/ Abort
    \/ \E n \in 1..3 : MemberReply(n)
    \/ ChairCall
    \/ ChairReply

Spec == Init /\ [][Next]_vars

\* the chair's replies and the tool-output messages this ask put in the history
RepliesOf(msgs) == SelectSeq(msgs, LAMBDA m : m.kind = "reply")
ToolOutputsOf(msgs) == SelectSeq(msgs, LAMBDA m : m.kind = "tool_output")

\* the flags a directive type needs
Required(type) ==
    CASE type \in {"command", "system_diagnostics"} -> {"allow_command"}
      [] type = "file"                  -> {"allow_file_write"}
      [] type \in {"edit", "ios_config"} -> {"allow_file_edit"}
      [] type \in {"read", "tree"}      -> {"allow_file_read"}
      [] type = "search"                -> {"allow_file_read", "allow_command"}
      [] type \in {"browser_open", "browser_search", "browser_act"}
                                        -> {"allow_browser"}
      [] type \in {"desktop_screenshot", "desktop_act"} -> {"allow_desktop"}

Permitted(type) == Required(type) \subseteq config.permissions

\* the step just taken processed the directives of a chair reply
ToolTurnTaken ==
    /\ progress # <<>>
    /\ progress[1].type = "step"
    /\ progress[1].message = "tool_executing"

DeniedEvents == SelectSeq(progress, LAMBDA e : e.type = "error")

\* C1: no ToolManager method is invoked for a directive whose flags are not
\* all enabled; in the turn that processes a reply, the methods invoked are
\* those of the permitted directives, in order, and each directive that
\* fails its check gets one 'Permission denied' error event instead.
C1_PermissionChecks ==
    /\ \A n \in 1..Len(toolCalls) : Permitted(toolCalls[n].type)
    /\ ToolTurnTaken =>
         LET tools == ParsedReplies[finalChairResponse.text]
             denied == SelectSeq(tools, LAMBDA d : ~Permitted(d.type))
             allowed == SelectSeq(tools, LAMBDA d :
                            Permitted(d.type)
                            /\ (d.type = "edit" => EditFormatOk(d.content)))
         IN  /\ Len(toolCalls) = Len(allowed)
             /\ \A n \in 1..Len(allowed) :
                    toolCalls[n] = [method |-> Method(allowed[n].type),
                                    type |-> allowed[n].type]
             /\ Len(DeniedEvents) = Len(denied)
             /\ \A n \in 1..Len(denied) :
                    DeniedEvents[n].message[1] = "Permission denied"

C1_Witness ==
    /\ ToolTurnTaken
    /\ toolCalls # <<>>
    /\ \E n \in 1..Len(toolCalls) : toolCalls[n].type = "search"
    /\ \E d \in {"diagnostics", "edit"} :
           \E n \in 1..Len(DeniedEvents) :
               DeniedEvents[n].message = <<"Permission denied", d>>

\* C2: an ask never makes more than 5 chair calls; every reply but the last
\* held a directive; the ask only returns after a reply without executable
\* directives or after the fifth reply, and returns the last reply received
\* as chairResponse; short of that the loop goes on unless it is cancelled.
C2_LoopTermination ==
    LET rs == RepliesOf(messages)
        HasTools(k) == ParsedReplies[rs[k].text] # <<>>
    IN  /\ chairCalls <= MAX_TURNS
        /\ Len(rs) <= chairCalls
        /\ \A k \in 1..(Len(rs) - 1) : HasTools(k)
        /\ (pc = "done" /\ chairAgent # Undefined) =>
               /\ chairCalls >= 1
               /\ Len(rs) = chairCalls
               /\ ~HasTools(chairCalls) \/ chairCalls = MAX_TURNS
               /\ (~HasTools(1)) => chairCalls = 1
               /\ askResult.chairResponse = finalChairResponse
               /\ askResult.chairResponse.text = rs[chairCalls].text
               /\ askResult.chairResponse.providerId = chairAgent
        /\ (Len(rs) >= 1 /\ Len(rs) < MAX_TURNS /\ HasTools(Len(rs))) =>
               \/ pc \in {"turn", "awaiting"}
               \/ pc = "aborted" /\ signal

C2_Witness ==
    /\ pc = "done"
    /\ chairCalls = MAX_TURNS
    /\ ParsedReplies[askResult.chairResponse.text] # <<>>

HasDenial(m) ==
    \E n \in 1..Len(m.outputs) : m.outputs[n].says = "Permission denied"

\* C3 as stated: after a turn with a denied directive the loop always goes on
\* to another chair turn, so an ask that has returned made a chair call after
\* every such turn.
C3_AlwaysAnotherTurn ==
    pc = "done" =>
        \A k \in 1..Len(ToolOutputsOf(messages)) :
            HasDenial(ToolOutputsOf(messages)[k]) => chairCalls > k

\* C3 amended: a denial aborts nothing.  The turn's one tool-output message
\* follows the reply in the history and has an entry for every directive of
\* the reply, 'Permission denied' exactly for those failing their check, and
\* the loop goes on to another chair call, unless the turn was the fifth
\* (the ask then returns that reply) or the ask is cancelled first.
C3_DenialRoundTrip ==
    LET rs == RepliesOf(messages)
        outs == ToolOutputsOf(messages)
    IN  \A k \in 1..Len(outs) :
            HasDenial(outs[k]) =>
                LET tools == ParsedReplies[rs[k].text]
                IN  /\ outs[k].turn = k
                    /\ messages[2 * k] = rs[k] /\ messages[2 * k + 1] = outs[k]
                    /\ Len(outs[k].outputs) = Len(tools)
                    /\ \A n \in 1..Len(tools) :
                           /\ outs[k].outputs[n].type = tools[n].type
                           /\ (outs[k].outputs[n].says = "Permission denied")
                                  <=> ~Permitted(tools[n].type)
                    /\ k < MAX_TURNS =>
                           \/ pc = "turn" /\ chairCalls = k
                           \/ chairCalls > k
                           \/ pc = "aborted" /\ signal
                    /\ k = MAX_TURNS =>
                           /\ pc = "done"
                           /\ askResult.chairResponse.text = rs[k].text

C3_Witness ==
    LET outs == ToolOutputsOf(messages)
    IN  /\ chairCalls >= 2
        /\ Len(outs) >= 1
        /\ outs[1].outputs[1] = [type |-> "command", says |-> "Permission denied"]
        /\ outs[1].outputs[2] = [type |-> "file", says |-> "Result"]

Failed(r) == r.error # ""

KeyOf(id) == config.apiKeys[AgentOf(id).providerType]

\* C11: with the signal raised, the top of a chair turn and the settling of
\* a council or chair provider call that was in flight (one made with a key)
\* end the ask with the 'Aborted' condition: the member's promise rejects,
\* nothing is returned and no reply is recorded.  An ask that ends aborted
\* had its signal raised and returned nothing, while a provider failure of
\* the chair is a returned response with a non-empty error and no text.
C11_CancellationRaisesAborted ==
    [][ /\ (signal /\ pc = "turn") => pc' = "aborted"
        /\ (signal /\ pc = "awaiting" /\ KeyOf(chairAgent) # "") =>
               pc' = "aborted"
        /\ (signal /\ pc = "council") =>
               \A n \in 1..Len(inflight) :
                   (inflight'[n] # inflight[n] /\ KeyOf(councilMembers[n]) # "") =>
                       /\ inflight'[n] = Rejected
                       /\ pc' = "aborted"
        /\ pc' = "aborted" =>
               /\ signal'
               /\ askResult' = NoResponse
               /\ finalChairResponse' = finalChairResponse
        /\ (pc' = "done" /\ chairAgent' # Undefined) =>
               /\ askResult' # NoResponse
               /\ askResult'.chairResponse = finalChairResponse'
               /\ Failed(askResult'.chairResponse) =>
                      askResult'.chairResponse.text = <<>>
      ]_vars

C11_Witness ==
    /\ pc = "aborted"
    /\ signal
    /\ chairCalls >= 2
    /\ abortedAt = 0
    /\ finalChairResponse # NoResponse
    /\ askResult = NoResponse

\* the last tool-output message of the history
LastToolOutput == ToolOutputsOf(messages)[Len(ToolOutputsOf(messages))]

\* C12: once the signal has been raised during a turn's tool calls, no
\* directive that follows in the same reply is executed, and the ask does
\* not return an answer.
C12_NothingRunsAfterSignal ==
    abortedAt # 0 =>
        /\ \A n \in (abortedAt + 1)..Len(LastToolOutput.outputs) :
               LastToolOutput.outputs[n].says \notin {"Result", "Error"}
        /\ pc # "done"

IsPrefix(s, t) == Len(s) <= Len(t) /\ SubSeq(t, 1, Len(s)) = s

\* C13: from the question's append on, raising the signal and every step of
\* the ask keep the messages already in the history, in their order; a step
\* that ends the ask with the aborted condition appends nothing, so an
\* aborted ask leaves the question followed by the reply and the tool output
\* of each turn that was completed, and nothing for the call that was
\* aborted before it returned.
C13_CancelKeepsHistory ==
    [][ pc # "idle" =>
          /\ IsPrefix(messages, messages')
          /\ signal' # signal => messages' = messages \/ abortedAt' # 0
          /\ pc' = "aborted" =>
                 /\ messages' = messages
                 /\ Len(messages') = 1 + 2 * turn'
                 /\ Len(RepliesOf(messages')) = turn'
                 /\ messages'[1] = Question
                 /\ \A k \in 1..turn' :
                        /\ messages'[2 * k].kind = "reply"
                        /\ messages'[2 * k + 1].kind = "tool_output"
      ]_vars

C13_Witness ==
    /\ pc = "aborted"
    /\ chairCalls = 3
    /\ turn = 2
    /\ Len(messages) = 5

\* the chair's provider call of the last turn came back as a failure
ChairFailed == finalChairResponse # NoResponse /\ Failed(finalChairResponse)

ToolError(m, n) ==
    m.outputs[n].says \in {"Error", "Invalid format", "Command aborted by user."}

HasToolError(m) == \E n \in 1..Len(m.outputs) : ToolError(m, n)

\* C15 as stated: after a turn in which a tool reported an error the loop
\* always goes on to the next chair turn, so an ask that has returned made a
\* chair call after every such turn.
C15_AlwaysNextTurn ==
    pc = "done" =>
        \A k \in 1..Len(ToolOutputsOf(messages)) :
            HasToolError(ToolOutputsOf(messages)[k]) => chairCalls > k

\* C15 amended: a tool error aborts nothing.  The turn's tool-output message
\* has an entry for every directive of the reply: the error text for each
\* call whose method reported an error and for an edit block of invalid
\* format, the result for each call that succeeded; and the loop goes on to
\* another chair call, unless the turn was the fifth (the ask then returns
\* that reply) or the ask is cancelled first.
C15_ToolFailureRoundTrip ==
    LET rs == RepliesOf(messages)
        outs == ToolOutputsOf(messages)
        perms == getPermissions(config)
    IN  \A k \in 1..Len(outs) :
            HasToolError(outs[k]) =>
                LET tools == ParsedReplies[rs[k].text]
                IN  /\ messages[2 * k] = rs[k] /\ messages[2 * k + 1] = outs[k]
                    /\ Len(outs[k].outputs) = Len(tools)
                    /\ \A n \in 1..Len(tools) :
                           LET says == outs[k].outputs[n].says
                           IN  /\ outs[k].outputs[n].type = tools[n].type
                               /\ (Executes(tools[n], perms)
                                     /\ Method(tools[n].type) \in toolFailures) =>
                                      says \in {"Error", "Command aborted by user."}
                               /\ (Executes(tools[n], perms)
                                     /\ Method(tools[n].type) \notin toolFailures) =>
                                      says \in {"Result", "Command aborted by user."}
                               /\ (DenialOf(tools[n], perms) = ""
                                     /\ ~Executes(tools[n], perms)) =>
                                      says = "Invalid format"
                               /\ says = "Command aborted by user." =>
                                      /\ tools[n].type = "command"
                                      /\ signal
                    /\ k < MAX_TURNS =>
                           \/ pc = "turn" /\ chairCalls = k
                           \/ chairCalls > k
                           \/ pc = "aborted" /\ signal
                    /\ k = MAX_TURNS =>
                           /\ pc = "done"
                           /\ askResult.chairResponse.text = rs[k].text

C15_Witness ==
    LET outs == ToolOutputsOf(messages)
    IN  /\ toolFailures = FailingMethods
        /\ ~signal
        /\ chairCalls = 3
        /\ Len(outs) = 2
        /\ outs[1].outputs[1] = [type |-> "command", says |-> "Error"]
        /\ outs[1].outputs[2] = [type |-> "file", says |-> "Error"]
        /\ outs[2].outputs[1] = [type |-> "browser_open", says |-> "Error"]
        /\ outs[2].outputs[7] = [type |-> "edit", says |-> "Invalid format"]

----------------------------------------------------------------------------
(* sendToProvider on its own: one call, its attempts, and the signal *)

maxAttempts == 2

SendTypes == {"openai", "anthropic", "gemini"}

\* the field of the response body each implementation reads its text from:
\* choices[0].message.content, content[0].text, candidates[0].content.parts[0].text
ShapeOf(type) ==
    CASE type = "anthropic" -> "content"
      [] type = "gemini"    -> "candidates"
      [] OTHER              -> "choices"

\* the bodies of a 2xx response: an answer in each vendor's shape, an answer
\* with empty content, and a body with none of the fields
Bodies ==
    {[shape |-> sh, text |-> <<"hello">>] : sh \in {"choices", "content", "candidates"}}
        \cup {[shape |-> "choices", text |-> <<>>],
              [shape |-> "none", text |-> <<>>]}

\* res.data?.<path>?.text || ''
ExtractText(type, body) == IF body.shape = ShapeOf(type) THEN body.text ELSE <<>>

\* sendOpenAICompatible, sendAnthropic, sendGemini on a 2xx response
SendImpl(type, id, body) == OkResponse(id, ExtractText(type, body))

\* the errors axios rejects with: status 0 stands for no error.response,
\* data "" for no error.response.data
Errors ==
    {[kind |-> "timeout", code |-> "ECONNABORTED",
      message |-> "timeout of 300000ms exceeded", status |-> 0, data |-> ""],
     [kind |-> "timeout", code |-> "ETIMEDOUT",
      message |-> "Timeout of 300000ms exceeded", status |-> 0, data |-> ""],
     [kind |-> "connection abort", code |-> "ECONNABORTED",
      message |-> "Request aborted", status |-> 0, data |-> ""],
     [kind |-> "server", code |-> "ERR_BAD_RESPONSE",
      message |-> "Request failed with status code 500", status |-> 500,
      data |-> "Internal error"],
     [kind |-> "server", code |-> "ERR_BAD_RESPONSE",
      message |-> "Request failed with status code 503", status |-> 503,
      data |-> ""],
     [kind |-> "client", code |-> "ERR_BAD_REQUEST",
      message |-> "Request failed with status code 401", status |-> 401,
      data |-> "Invalid API key"],
     [kind |-> "client", code |-> "ERR_BAD_REQUEST",
      message |-> "Request failed with status code 429", status |-> 429,
      data |-> ""],
     [kind |-> "network", code |-> "ERR_NETWORK",
      message |-> "Network Error", status |-> 0, data |-> ""],
     [kind |-> "unknown", code |-> "",
      message |-> "", status |-> 0, data |-> ""]}

\* what axios rejects with when the signal aborts the request
Canceled ==
    [kind |-> "cancel", code |-> "ERR_CANCELED", message |-> "canceled",
     status |-> 0, data |-> ""]

\* axios.isCancel(error)
isCancel(e) == e.code = "ERR_CANCELED"

\* error.message?.toLowerCase().includes('timeout'), for the messages of Errors
MentionsTimeout(message) ==
    message \in {"timeout of 300000ms exceeded", "Timeout of 300000ms exceeded"}

\* a retry test that takes every failure for a transient one
isRetryable_always(e) == TRUE

\* const isRetryable = ...
isRetryable(e) ==
    \/ e.code = "ECONNABORTED"
    \/ MentionsTimeout(e.message)
    \/ e.status # 0 /\ e.status >= 500

\* let msg = error?.message || 'Unknown error', replaced by what the
\* response data says when there is any
ErrorMessage(e) ==
    IF e.data # "" THEN e.data
    ELSE IF e.message # "" THEN e.message
    ELSE "Unknown error"

SendAgent == "a1"

\* the call: without a key it returns at once, otherwise the first attempt
\* is started
SendToProvider ==
    /\ send.pc = "idle"
    /\ \E type \in SendTypes, apiKey \in {"", "key"} :
        send' = IF apiKey = ""
                THEN [send EXCEPT !.type = type, !.apiKey = apiKey,
                                  !.pc = "returned",
                                  !.result = NoKeyResponse(SendAgent)]
                ELSE [send EXCEPT !.type = type, !.apiKey = apiKey,
                                  !.pc = "attempt", !.attempts = 1]
    /\ UNCHANGED <<parseVars, jsonVars, scoreVars, reqVars, config, toolFailures, messages,
                   askVars>>

\* the attempt's request settles with a 2xx response
AttemptSucceeds ==
    /\ send.pc = "attempt"
    /\ ~signal
    /\ \E body \in Bodies :
        send' = [send EXCEPT
                    !.pc = "returned",
                    !.log = Append(@, [ok |-> TRUE, body |-> body,
                                       cancelled |-> FALSE]),
                    !.result = SendImpl(send.type, SendAgent, body)]
    /\ UNCHANGED <<parseVars, jsonVars, scoreVars, reqVars, config, toolFailures, messages,
                   askVars>>

\* the attempt's request is rejected: the catch block
AttemptFails ==
    /\ send.pc = "attempt"
    /\ \E e \in Errors \cup {Canceled} :
        /\ isCancel(e) => signal
        /\ LET entry == [ok |-> FALSE, error |-> e,
                         cancelled |-> isCancel(e) \/ signal]
           IN  send' =
                 IF isCancel(e) \/ signal
                 THEN [send EXCEPT !.pc = "thrown", !.log = Append(@, entry),
                                   !.result = Rejected]
                 ELSE IF isRetryable(e) /\ send.attempts < maxAttempts
                 THEN [send EXCEPT !.pc = "delay", !.log = Append(@, entry)]
                 ELSE [send EXCEPT !.pc = "returned", !.log = Append(@, entry),
                                   !.result = ErrorResponse(SendAgent,
                                                            ErrorMessage(e))]
    /\ UNCHANGED <<parseVars, jsonVars, scoreVars, reqVars, config, toolFailures, messages,
                   askVars>>

\* the 2 s wait is over: continue, the next attempt is started
DelayEnds ==
    /\ send.pc = "delay"
    /\ send.attempts < maxAttempts
    /\ send' = [send EXCEPT !.pc = "attempt", !.attempts = @ + 1,
                            !.delays = @ + 1]
    /\ UNCHANGED <<parseVars, jsonVars, scoreVars, reqVars, config, toolFailures, messages,
                   askVars>>

SendInit ==
    /\ ParserParked
    /\ ScorerParked
    /\ config = DefaultConfig
    /\ toolFailures = {}
    /\ messages = <<>>
    /\ AskParked

SendNext ==
    \/ SendToProvider
    \/ AttemptSucceeds
    \/ AttemptFails
    \/ DelayEnds
    \/ Abort

SpecSend == SendInit /\ [][SendNext]_vars

\* the retryable conditions: a timeout, a connection abort, a status 5xx
Transient(e) ==
    e.kind \in {"timeout", "connection abort"} \/ e.status \in 500..599

\* the first attempt failed with a retryable condition, the call not cancelled
FirstFailedTransient ==
    /\ Len(send.log) >= 1
    /\ ~send.log[1].ok
    /\ Transient(send.log[1].error)
    /\ ~send.log[1].cancelled

MalformedResponse ==
    /\ send.log # <<>>
    /\ send.log[Len(send.log)].ok
    /\ send.log[Len(send.log)].body.shape # ShapeOf(send.type)

\* the call ended in a failure that is not a cancellation
OrdinaryFailure ==
    \/ send.apiKey = ""
    \/ send.log # <<>> /\ ~send.log[Len(send.log)].ok
    \/ MalformedResponse

\* C17: the call throws only when it is cancelled, and every call that ends
\* in an ordinary failure (a transient failure after the retry, a 4xx, a
\* malformed response, a missing key) returns a response with a non-empty
\* error and the empty text.
C17_FailuresCarryError ==
    /\ send.pc = "thrown" =>
           /\ send.result = Rejected
           /\ send.log[Len(send.log)].cancelled
    /\ (send.pc = "returned" /\ OrdinaryFailure) =>
           /\ Failed(send.result)
           /\ send.result.text = <<>>

\* C18: the history of an ask is the raw question, then for each tool turn
\* the chair's reply (assistant), which held directives, followed by that
\* turn's one tool-output message (user), then, when the loop ended on a
\* reply without directives, that reply (assistant), and nothing else: an ask
\* with k tool turns that returns a directive-free reply leaves 2k + 2
\* messages.
C18_HistoryAppendOrder ==
    pc # "idle" =>
        /\ messages[1] = Question
        /\ Len(messages) \in {1 + 2 * turn, 2 + 2 * turn}
        /\ \A k \in 1..turn :
               /\ messages[2 * k].role = "assistant"
               /\ messages[2 * k].kind = "reply"
               /\ ParsedReplies[messages[2 * k].text] # <<>>
               /\ messages[2 * k + 1].role = "user"
               /\ messages[2 * k + 1].kind = "tool_output"
               /\ messages[2 * k + 1].turn = k
               /\ Len(messages[2 * k + 1].outputs)
                      = Len(ParsedReplies[messages[2 * k].text])
        /\ Len(messages) = 2 + 2 * turn =>
               LET last == messages[Len(messages)]
               IN  /\ pc = "done"
                   /\ last.role = "assistant"
                   /\ last.kind = "reply"
                   /\ ParsedReplies[last.text] = <<>>
                   /\ last.text = askResult.chairResponse.text
        /\ (pc = "done" /\ chairAgent # Undefined
               /\ ParsedReplies[askResult.chairResponse.text] = <<>>) =>
               Len(messages) = 2 * turn + 2

C18_Witness ==
    /\ pc = "done"
    /\ turn = 3
    /\ Len(messages) = 8
    /\ askResult.chairResponse.text = <<"Done">>

----------------------------------------------------------------------------
(* The history under its operations: add, compact, clear, and the start of
   Council.ask with its automatic compaction and the question's append *)

\* the keepCount of the '/compact' command and of compact()'s default, and
\* the least one Council.ask passes
KeepCounts == {5, 10}

HistoryNext ==
    \/ \E m \in OldMessages : Len(messages) < MaxHistory /\ HistoryAdd(m)
    \/ \E keepCount \in KeepCounts : HistoryCompact(keepCount)
    \/ HistoryClear
    \/ AskBegin(Question)

SpecHistory == CompactInit /\ [][HistoryNext]_vars

IsSuffix(s, t) ==
    Len(s) <= Len(t) /\ SubSeq(t, Len(t) - Len(s) + 1, Len(t)) = s

\* the step removes entries from the history
Removes == ~IsPrefix(messages, messages')

\* C19 as stated: a step that removes entries is a compaction (compact, or
\* the automatic compaction of Council.ask) and leaves a suffix of the
\* history.
C19_OnlyCompactionRemoves ==
    [][ Removes =>
          \/ /\ \E keepCount \in KeepCounts : HistoryCompact(keepCount)
             /\ IsSuffix(messages', messages)
          \/ /\ AskBeginStep
             /\ IsSuffix(Retained(messages'), messages)
      ]_vars

\* C19 amended: compaction and clear are the only operations that remove
\* entries.  add and the question's append remove nothing; a compaction
\* (compact, or the automatic one of Council.ask) removes only a prefix, and
\* what it leaves keeps its content and order; clear removes every entry.
C19_CompactionAndClearRemove ==
    [][ /\ Removes =>
              \/ /\ \E keepCount \in KeepCounts : HistoryCompact(keepCount)
                 /\ IsSuffix(messages', messages)
                 /\ messages' # <<>>
              \/ /\ AskBeginStep
                 /\ IsSuffix(Retained(messages'), messages)
                 /\ messages'[Len(messages')] = Question
              \/ /\ HistoryClear
                 /\ messages' = <<>>
        /\ (\E m \in OldMessages : HistoryAdd(m)) =>
              /\ IsPrefix(messages, messages')
              /\ Len(messages') = Len(messages) + 1
        /\ (AskBeginStep /\ ~Removes) => messages' = Append(messages, Question)
      ]_vars

\* a compaction has removed the oldest of seven messages
C19_Witness ==
    /\ pc = "idle"
    /\ Len(messages) = 5
    /\ messages[1].len = 300000
    /\ messages[5].images = 1
    /\ \A n \in 2..4 : messages[n].len = 25

----------------------------------------------------------------------------
(* The roles of an ask: every assignment of chair and secretary over agents
   that are enabled or not, with the council switched on or off *)

MaxRoleAgents == 3

RoleNames == <<"a1", "a2", "a3", "a4", "a5">>

RoleIds == {RoleNames[n] : n \in 1..MaxRoleAgents}

RoleConfigs ==
    {[DefaultConfig EXCEPT
         !.apiKeys = AllKeys,
         !.agents = [n \in 1..MaxRoleAgents |->
                        Agent(RoleNames[n], "openai", "sonar", n \in on)],
         !.chairAgentId = chair,
         !.secretaryAgentId = secretary,
         !.councilActive = active] :
        on \in SUBSET (1..MaxRoleAgents),
        chair \in RoleIds \cup {Undefined},
        secretary \in RoleIds \cup {Undefined},
        active \in BOOLEAN}

RolesInit ==
    /\ ParserParked
    /\ ScorerParked
    /\ config \in RoleConfigs
    /\ toolFailures = {}
    /\ messages = <<>>
    /\ AskParked

RolesNext ==
    \/ AskBegin(Question)
    \/ \E n \in 1..MaxRoleAgents : MemberReply(n)
    \/ ChairCall

SpecRoles == RolesInit /\ [][RolesNext]_vars

\* the ids of the enabled agents
EnabledIds == {config.agents[n].id : n \in {m \in 1..Len(config.agents) :
                                               config.agents[m].enabled}}

\* the agent acting as chair: the configured chair when it is enabled, else
\* the first enabled agent
ActingChair ==
    IF config.chairAgentId \in EnabledIds THEN config.chairAgentId
    ELSE LET first == SetMin({n \in 1..Len(config.agents) :
                                  config.agents[n].enabled})
         IN  config.agents[first].id

\* the agents whose sendToProvider call the fan-out started or settled
Queried ==
    {councilMembers[n] : n \in 1..Len(inflight)}
        \cup {delivered[n].providerId : n \in 1..Len(delivered)}
        \cup {progress[n].agent : n \in {m \in 1..Len(progress) :
                                          progress[m].type \in {"agent_thinking",
                                                                "agent_response"}}}

\* C20: once an ask has resolved its roles, the chair it uses is the
\* configured chair when that agent is enabled and the first enabled agent
\* otherwise, and the members it queries are enabled agents, never that
\* chair and never the secretary; with the council switched off nobody is
\* queried.
C20_MembersExcludeChairAndSecretary ==
    (pc # "idle" /\ EnabledIds # {}) =>
        /\ chairAgent = ActingChair
        /\ Queried \subseteq {councilMembers[n] : n \in 1..Len(councilMembers)}
        /\ \A n \in 1..Len(councilMembers) :
               /\ councilMembers[n] \in EnabledIds
               /\ councilMembers[n] # chairAgent
               /\ councilMembers[n] # config.secretaryAgentId
        /\ ~config.councilActive => councilMembers = <<>> /\ Queried = {}

\* no chair is configured, so the first enabled agent acts as chair; the
\* second is the secretary, and the third, the one member, has answered
C20_Witness ==
    /\ config.chairAgentId = Undefined
    /\ config.secretaryAgentId = "a2"
    /\ \A n \in 1..3 : config.agents[n].enabled
    /\ chairAgent = "a1"
    /\ councilMembers = <<"a3">>
    /\ Len(delivered) = 1
    /\ delivered[1].providerId = "a3"
    /\ pc = "turn"

\* C21: the agent the chair's prompt is sent to is never the assigned
\* secretary.
C21_SecretaryNeverChair ==
    chairCalls >= 1 => chairAgent # config.secretaryAgentId

----------------------------------------------------------------------------
(* Specification of an ask with a secretary: a chair, a member and the
   detached evaluation that follows the return *)

\* a chair, a member and a third agent; the secretary id names the third
\* agent, an agent that is gone, or nobody
ScoreConfig(secretary, key, active) ==
    [DefaultConfig EXCEPT
        !.apiKeys = [AllKeys EXCEPT !["anthropic"] = key],
        !.agents = <<Agent("a1", "openai", "sonar", TRUE),
                     Agent("a2", "openai", "sonar", TRUE),
                     Agent("a4", "anthropic", "sonar", TRUE)>>,
        !.chairAgentId = "a1",
        !.secretaryAgentId = secretary,
        !.councilActive = active]

ScoreInit ==
    /\ ParserParked
    /\ ScorerParked
    /\ config \in {ScoreConfig(s, "key", TRUE) : s \in {"a4", "a9", Undefined}}
                    \cup {ScoreConfig("a4", "", TRUE), ScoreConfig("a4", "key", FALSE)}
    /\ toolFailures = {}
    /\ messages = <<>>
    /\ AskParked

ScoreNext ==
    \/ AskBegin(Question)
    \/ \E n \in 1..2 : MemberReply(n)
    \/ ChairCall
    \/ ChairReply
    \/ SecretaryReply

SpecScore == ScoreInit /\ [][ScoreNext]_vars

\* C22: the evaluation runs detached from the ask.  Whenever it has been
\* started the ask has already returned the members' responses and the
\* chair's final response, and no step of the evaluation, whether it counts
\* verdicts, ends on an empty text, fails on a text that is no JSON or never
\* settles, changes what the ask returned or turns the return into a failure.
C22_ScoringOffCriticalPath ==
    /\ [](scorer.pc # "idle"
            => /\ pc = "done"
               /\ askResult = [councilResponses |-> councilResponses,
                               chairResponse |-> finalChairResponse])
    /\ [][scorer.pc = "running"
            => /\ pc' = pc /\ askResult' = askResult /\ messages' = messages
               /\ scorer'.pc = "settled"]_vars

\* C22 witness: the ask has returned, and the evaluation started by it has
\* since failed on the secretary's text and emitted its error event.
C22_Witness ==
    /\ pc = "done"
    /\ askResult # NoResponse
    /\ Len(askResult.councilResponses) = 1
    /\ scorer.pc = "settled"
    /\ scorer.events = <<[type |-> "error", message |-> "Secretary error"]>>
    /\ progress = scorer.events

\* the ask with a secretary, every provider call and every tool execution it
\* starts completing: the members' calls settle, the loop reaches its next
\* turn, and the chair's call with the tools of its reply settles
SpecScoreLive ==
    /\ ScoreInit
    /\ [][ScoreNext]_vars
    /\ WF_vars(\E n \in 1..2 : MemberReply(n))
    /\ WF_vars(ChairCall)
    /\ WF_vars(ChairReply)

\* C23: every ask that was started eventually completes, by returning or by
\* raising an error or the aborted condition, when every provider call and
\* every tool execution it starts completes.
C23_AskCompletes ==
    (pc # "idle") ~> (pc \in {"done", "aborted"})

\* C23 witness: an ask whose chair asked for tools on every turn has been
\* completed by the bound on the turns.
C23_Witness ==
    /\ pc = "done"
    /\ turn = MAX_TURNS
    /\ chairCalls = MAX_TURNS
    /\ toolsToRun # <<>>

----------------------------------------------------------------------------
(* The directive loop of one chair turn, under Spec *)

\* the ToolManager call the loop makes for the directive d
CallFor(d) == [method |-> Method(d.type), type |-> d.type]

\* the directives of the turn that pass their permission check
PermittedTools == SelectSeq(toolsToRun, LAMBDA d : Permitted(d.type))

\* the permitted directives the loop has a call for: an edit block needs its
\* one "=======" separator
WellFormed(d) == d.type = "edit" => EditFormatOk(d.content)

ExecutableTools == SelectSeq(PermittedTools, WellFormed)

\* C24 as stated: in the turn that processes a reply, the ToolManager calls
\* are one per directive that passes its permission check, in source order.
C24_EveryPermittedExecuted ==
    ToolTurnTaken =>
        toolCalls = [n \in 1..Len(PermittedTools) |-> CallFor(PermittedTools[n])]

\* C24 amended: in the turn that processes a reply, the ToolManager calls are
\* one per directive that passes its permission check and, for an edit block,
\* has the SEARCH/REPLACE separator, in source order, none skipped and none
\* repeated; the turn's output lists every directive once in source order,
\* and at most one call, that of an executed directive, is running when the
\* signal is raised.
C24_EveryWellFormedPermittedExecuted ==
    ToolTurnTaken =>
        /\ toolCalls = [n \in 1..Len(ExecutableTools) |-> CallFor(ExecutableTools[n])]
        /\ [n \in 1..Len(LastToolOutput.outputs) |-> LastToolOutput.outputs[n].type]
               = [n \in 1..Len(toolsToRun) |-> toolsToRun[n].type]
        /\ abortedAt \in 0..Len(toolsToRun)
        /\ abortedAt # 0 => /\ Permitted(toolsToRun[abortedAt].type)
                            /\ WellFormed(toolsToRun[abortedAt])

\* C24 witness: a turn of seven directives with desktop control disabled:
\* the two desktop directives were denied, the malformed edit block got no
\* call, and the other four were executed in source order.
C24_Witness ==
    /\ ToolTurnTaken
    /\ Len(toolsToRun) = 7
    /\ Len(PermittedTools) = 5
    /\ toolCalls = <<CallFor([type |-> "browser_open"]),
                     CallFor([type |-> "browser_search"]),
                     CallFor([type |-> "browser_act"]),
                     CallFor([type |-> "ios_config"])>>

----------------------------------------------------------------------------
(* Specification of the parser on one fenced block: whitespace, a tag,
   whitespace, a body, the closing fence *)

\* the alternatives of cmdRegex
CommandTags ==
    {"bash", "sh", "zsh", "command", "shell", "term", "terminal", "console", "cmd"}

\* the words after the fence opener: the nine tags, two of them in other
\* case, and other words
TagWords == CommandTags \cup {"BASH", "Shell", "CMD", "bashrc", "python", "json"}

TagGaps == {<<>>, <<SP>>, <<NL>>}

TagSeparators == {<<NL>>, <<SP>>, <<SP, NL>>}

TagBodies == {<<"ls">>, <<"ls", SP, "-la", NL>>, <<"ls", NL, "pwd", SP>>}

TagTexts ==
    {<<F>> \o g \o <<w>> \o s \o b \o <<F>> :
        g \in TagGaps, w \in TagWords, s \in TagSeparators, b \in TagBodies}

TagInit ==
    /\ text \in TagTexts
    /\ parseDone = FALSE
    /\ results = <<>>
    /\ parsed = <<>>
    /\ ScorerParked
    /\ config = DefaultConfig
    /\ messages = <<>>
    /\ AskParked
    /\ toolFailures = {}

TagNext == ParseTools

SpecTags == TagInit /\ [][TagNext]_vars

\* the tag of the block and its body, as the text spells them
BlockTag == LowerCase(text[SkipWs(text, 2)])

BlockBody == Trim(SubSeq(text, SkipWs(text, 2) + 1, Len(text) - 1))

\* C25: parseTools yields a command directive for the block exactly when its
\* tag is, case-insensitively and whitespace aside, one of the nine
\* command tags, and the directive's content is then the trimmed body of the
\* block with the whole tag removed.
C25_CommandTags ==
    parseDone =>
        IF BlockTag \in CommandTags
        THEN parsed = <<[type |-> "command", content |-> BlockBody, arg |-> <<>>]>>
        ELSE \A n \in 1..Len(parsed) : parsed[n].type # "command"

----------------------------------------------------------------------------
(* The number of messages the automatic compaction removes, under SpecCompact *)

\* the claim's reference function: no message when the estimated total is
\* within 0.8 x contextLimit; otherwise the smallest k >= 1 that leaves an
\* estimated total of at most 0.5 x contextLimit, reduced so that five
\* messages, or the whole of a shorter history, remain
C26_Reference(msgs, contextLimit) ==
    IF 10 * TotalTokens(msgs) <= 8 * contextLimit THEN 0
    ELSE LET fits == {k \in 1..Len(msgs) :
                         2 * TotalTokens(SubSeq(msgs, k + 1, Len(msgs)))
                             <= contextLimit}
             k == SetMin(fits)
         IN  IF Len(msgs) <= 5 THEN 0
             ELSE IF Len(msgs) - k >= 5 THEN k
             ELSE Len(msgs) - 5

\* C26: the automatic compaction of Council.ask removes as many messages as
\* the reference function says, and they are the oldest ones: what it leaves
\* is the history without its first k messages.
C26_RemovedCount ==
    [][(/\ AskBeginStep
        /\ config.autoCompact
        /\ ChairOf(EnabledAgents) # NoAgent)
       => LET k == C26_Reference(messages, ContextLimit(ChairOf(EnabledAgents)))
          IN  /\ Len(messages) - Len(Retained(messages')) = k
              /\ Retained(messages') = SubSeq(messages, k + 1, Len(messages))]_vars

\* C26 witness: a compaction of seven messages stopped after the oldest one,
\* the 120000 tokens of which it took off the total, and left six.
C26_Witness ==
    /\ pc # "idle"
    /\ Len(messages) = 6 + 1
    /\ progress # <<>>
    /\ progress[1].message = "compact_auto"
    /\ progress[1].totalTokens - progress[1].remainingTokens = 120000

----------------------------------------------------------------------------
(* Specification of an ask under a small context window: a history is there
   when the question is asked, and the chair's turns add to it *)

OldMessage == [role |-> "user", kind |-> "old", len |-> 25, images |-> 0]

\* what an earlier ask with one tool turn left in the history
EarlierAsk ==
    <<OldMessage,
      [role |-> "assistant", kind |-> "reply", len |-> 8, images |-> 0,
       text |-> <<"Running", NL, F, "bash", NL, "ls", NL, F>>, providerId |-> "a1"],
      [role |-> "user", kind |-> "tool_output", len |-> 100, images |-> 0,
       turn |-> 1, outputs |-> <<[type |-> "command", says |-> "Result"]>>],
      [role |-> "assistant", kind |-> "reply", len |-> 1, images |-> 0,
       text |-> <<"Done">>, providerId |-> "a1"]>>

\* histories of 0, 3, 5 and 6 messages of 10 estimated tokens each, and the
\* history of an earlier ask
BudgetHistories == {[n \in 1..k |-> OldMessage] : k \in {0, 3, 5, 6}} \cup {EarlierAsk}

\* a chair and two members whose model has a context window of 40 or of 2100
\* tokens
BudgetConfig(model) ==
    [DefaultConfig EXCEPT
        !.apiKeys = AllKeys,
        !.agents = <<Agent("a1", "openai", model, TRUE),
                     Agent("a2", "openai", model, TRUE),
                     Agent("a3", "openai", model, TRUE)>>,
        !.chairAgentId = "a1"]

BudgetInit ==
    /\ ParserParked
    /\ ScorerParked
    /\ config \in {BudgetConfig(m) : m \in {"small-context", "tight-context"}}
    /\ toolFailures = {}
    /\ messages \in BudgetHistories
    /\ AskParked

BudgetNext ==
    \/ AskBegin(Question)
    \/ \E n \in 1..2 : MemberReply(n)
    \/ ChairCall
    \/ ChairReply

SpecBudget == BudgetInit /\ [][BudgetNext]_vars

\* the history is one the compaction block leaves alone or has dealt with:
\* within 0.8 x contextLimit, or down to the floor of five messages
Budgeted(msgs, chair) ==
    \/ 10 * TotalTokens(msgs) <= 8 * ContextLimit(AgentOf(chair))
    \/ Len(msgs) <= 5

WithinBudget == Budgeted(messages, chairAgent)

\* a step that issues provider calls: the fan-out, or the chair's call
CallsProvider ==
    \/ pc = "idle" /\ pc' \in {"council", "turn"}
    \/ pc = "turn" /\ pc' = "awaiting"

\* C27 as stated: with auto-compaction enabled, at every provider call of an
\* ask, those of the second and later turns included, a history over
\* 0.8 x contextLimit has been compacted.
C27_CompactedBeforeEveryCall ==
    [][(CallsProvider /\ config.autoCompact) => WithinBudget']_vars

\* C27 amended: with auto-compaction enabled the check runs once per ask, on
\* the history as it stands before the question is appended and before any
\* provider call of the ask: that history, if over 0.8 x contextLimit, has
\* been compacted when the first calls are made, and from then on the ask
\* only appends to the history, also before the chair's later calls.
C27_CompactedOncePerAsk ==
    [][/\ (AskBeginStep /\ config.autoCompact) =>
              /\ Budgeted(Retained(messages'), chairAgent')
              /\ chairCalls' = 0
              /\ \A n \in 1..Len(inflight') : inflight'[n] = Pending
       /\ pc # "idle" => IsPrefix(messages, messages')]_vars

\* C27 witness: the chair's second call is in flight with a history of more
\* than five messages over 0.8 x contextLimit, the tool output of the first
\* turn in it.
C27_Witness ==
    /\ config.autoCompact
    /\ pc = "awaiting"
    /\ chairCalls = 2
    /\ ~WithinBudget
    /\ messages[Len(messages)].kind = "tool_output"

----------------------------------------------------------------------------
(* The chair's first prompt, under Spec *)

\* the members whose call returned a response without an error, in member
\* order
HeardMembers ==
    SelectSeq(councilMembers,
              LAMBDA id : \E n \in 1..Len(inflight) :
                              /\ councilMembers[n] = id
                              /\ inflight[n] \notin {Pending, Rejected}
                              /\ inflight[n].error = "")

\* the chair's first call has been made
FirstChairCall == pc = "awaiting" /\ chairCalls = 1 /\ turn = 0

\* C28: the opinions in the chair's first prompt are the responses without
\* an error, one per such member and in member order, each labelled with its
\* member's identity and carrying that member's text, whatever the order in
\* which the members' calls settled.
C28_OpinionsInMemberOrder ==
    FirstChairCall =>
        LET opinions == requests[1].prompt.opinions
        IN  /\ requests[1].prompt.kind = "context"
            /\ Len(opinions) = Len(HeardMembers)
            /\ \A n \in 1..Len(opinions) :
                   /\ opinions[n].label.id = HeardMembers[n]
                   /\ opinions[n].text = <<"opinion", HeardMembers[n]>>

\* C28 witness: the chair's first call carries the opinions of the second
\* and third member, the first member's call having failed, and the third
\* member's call settled before the other two.
C28_Witness ==
    /\ FirstChairCall
    /\ Len(councilMembers) = 3
    /\ Len(requests[1].prompt.opinions) = 2
    /\ requests[1].prompt.opinions[1].label.id = councilMembers[2]
    /\ requests[1].prompt.opinions[2].label.id = councilMembers[3]
    /\ delivered[1].providerId = councilMembers[3]
    /\ delivered[3].providerId = councilMembers[1]

----------------------------------------------------------------------------
(* The fan-out and the history, under SpecBudget *)

\* the history a call was handed: the first upto messages, cleaned
HistoryOf(request) == SubSeq(getCleanHistory(messages), 1, request.upto)

\* C29: while the members' calls are in flight the history is not modified,
\* and every member's call was handed the question just added and, as its
\* history, all the messages that precede that question.
C29_FanOutReadsOnly ==
    /\ [](pc = "council" =>
            /\ messages[Len(messages)] = Question
            /\ Len(requests) = Len(councilMembers)
            /\ \A n \in 1..Len(requests) :
                   /\ requests[n].to = councilMembers[n]
                   /\ requests[n].prompt = MemberPrompt(messages[Len(messages)])
                   /\ HistoryOf(requests[n])
                          = getCleanHistory(SubSeq(messages, 1, Len(messages) - 1)))
    /\ [][pc = "council" => messages' = messages]_vars

\* C29 witness: of two members' calls one has settled; both were handed the
\* four messages of the earlier ask, its tool block replaced, and the
\* history still ends with the question.
C29_Witness ==
    /\ pc = "council"
    /\ Len(requests) = 2
    /\ inflight[2] # Pending
    /\ inflight[1] = Pending
    /\ Len(HistoryOf(requests[1])) = 4
    /\ HistoryOf(requests[1]) = HistoryOf(requests[2])
    /\ HistoryOf(requests[1])[2].text = <<"Running", NL, "[Tool Executed]">>
    /\ messages[5] = Question

----------------------------------------------------------------------------
(* prepareMessages: what of a call's history is sent to the provider *)

DefaultContext == 4096
outputReserve == 2000

\* the length of the chair's system prompt: its text comes from the
\* translations, the project memory and the tool definitions
SystemPromptLen == 25

\* the lengths of the fixed texts of the prompts: the frame of the question
\* in contextForChair with promptSuffix, the frame of the opinions, the
\* frame of one opinion with its label, and "Продолжай."
QuestionFrameLen == 83
CouncilFrameLen == 286
OpinionFrameLen == 17
ContinueLen == 10

RECURSIVE OpinionsLen(_)
OpinionsLen(opinions) ==
    IF opinions = <<>> THEN 0
    ELSE OpinionFrameLen + Len(Head(opinions).text) + OpinionsLen(Tail(opinions))

\* prompt.length
PromptLen(prompt) ==
    CASE prompt.kind = "continue" -> ContinueLen
      [] prompt.kind = "question" -> prompt.question.len
      [] prompt.kind = "context"  ->
             QuestionFrameLen + prompt.question.len
             + (IF prompt.opinions = <<>> THEN 0
                ELSE CouncilFrameLen + OpinionsLen(prompt.opinions))

\* msg.role === 'user' && msg.text === prompt
IsPromptText(msg, prompt) ==
    msg.role = "user" /\ prompt.kind = "question" /\ msg = prompt.question

\* the loop from the newest message to the oldest: the messages that fit,
\* up to the first one that does not
RECURSIVE FitHistory(_, _, _, _)
FitHistory(history, i, remainingTokens, prompt) ==
    IF i = 0 THEN <<>>
    ELSE IF i = Len(history) /\ IsPromptText(history[i], prompt)
    THEN FitHistory(history, i - 1, remainingTokens, prompt)
    ELSE IF remainingTokens - MsgTokens(history[i]) >= 0
    THEN Append(FitHistory(history, i - 1, remainingTokens - MsgTokens(history[i]),
                           prompt),
                [role |-> IF history[i].role \in {"chair", "assistant"}
                          THEN "assistant" ELSE "user",
                 content |-> <<history[i]>>])
    ELSE <<>>

\* consecutive messages of one role are merged, their contents kept
RECURSIVE Sanitize(_, _)
Sanitize(rawMessages, sanitized) ==
    IF rawMessages = <<>> THEN sanitized
    ELSE LET msg == Head(rawMessages)
             last == Len(sanitized)
         IN  Sanitize(Tail(rawMessages),
                      IF last > 0 /\ sanitized[last].role = msg.role
                         /\ msg.role # "system"
                      THEN [sanitized EXCEPT ![last].content = @ \o msg.content]
                      ELSE Append(sanitized, msg))

\* prepareMessages(history, prompt, systemPrompt, model)
prepareMessages(history, prompt, systemLen, model) ==
    LET contextLimit == IF ModelContext(model) = 0 THEN DefaultContext
                        ELSE ModelContext(model)
        availableContext == contextLimit - outputReserve
        fixedTokens == estimateTokens(systemLen) + estimateTokens(PromptLen(prompt))
        remainingTokens == IF availableContext - fixedTokens < 0 THEN 0
                           ELSE availableContext - fixedTokens
    IN  Sanitize(<<[role |-> "system", content |-> <<[kind |-> "system"]>>]>>
                 \o FitHistory(history, Len(history), remainingTokens, prompt)
                 \o <<[role |-> "user", content |-> <<prompt>>]>>, <<>>)

\* the messages sendToProvider sends for a call of the ask
Sent(request) ==
    prepareMessages(HistoryOf(request), request.prompt, SystemPromptLen,
                    AgentOf(request.to).model)

\* the history messages among them
SentHistory(request) ==
    LET sent == Sent(request)
    IN  UNION {{sent[n].content[k] : k \in 1..Len(sent[n].content)} :
                  n \in 1..Len(sent)}

\* C30: on every chair turn after the first, the messages sent to the
\* chair's provider hold the tool-output message of the turn before and the
\* reply that preceded it, whatever the context size of the model and the
\* size of the tool output; on the first turn they hold every message of
\* the history but the question just added.
C30_ToolResultsFedBack ==
    LET history == getCleanHistory(messages)
        last == Len(history)
    IN  /\ (pc = "awaiting" /\ turn >= 1) =>
               /\ history[last].kind = "tool_output"
               /\ history[last] \in SentHistory(requests[1])
               /\ history[last - 1].kind = "reply"
               /\ history[last - 1] \in SentHistory(requests[1])
        /\ FirstChairCall =>
               /\ \A n \in 1..(last - 1) : history[n] \in SentHistory(requests[1])
               /\ history[last] \notin SentHistory(requests[1])

----------------------------------------------------------------------------
(* Specification of the statistics: an ask with a secretary, the detached
   evaluation, and the user's /stats and /new commands at the prompt *)

\* the prompt is shown when no ask is under way
AtPrompt == pc \in {"idle", "done", "aborted"}

RECURSIVE ReadStats(_, _)
\* agents.forEach(a => ctx.council.getStats(a.id)): this.stats afterwards
ReadStats(s, agents) ==
    IF agents = <<>> THEN s
    ELSE ReadStats(getStats(s, Head(agents).id), Tail(agents))

\* the /stats command: a row for every agent of the config, read with
\* getStats; nothing is saved
CmdStats ==
    /\ AtPrompt
    /\ stats' = ReadStats(stats, config.agents)
    /\ UNCHANGED <<parseVars, jsonVars, sendVars, reqVars, scorer, statsFile,
                   config, toolFailures, messages, askVars>>

\* the /new command: history.clear(), then council.resetStats()
CmdNew ==
    /\ AtPrompt
    /\ messages' = <<>>
    /\ stats' = NoStats
    /\ statsFile' = stats'
    /\ UNCHANGED <<parseVars, jsonVars, sendVars, reqVars, scorer, config,
                   toolFailures, askVars>>

\* the council of ScoreConfig with a disabled agent in front, and a chair id
\* that names the first enabled agent, the disabled one, an agent that was
\* removed, or nobody
StatsConfig(chair) ==
    [ScoreConfig("a4", "key", TRUE) EXCEPT
        !.agents = <<Agent("a3", "openai", "sonar", FALSE)>> \o @,
        !.chairAgentId = chair]

StatsInit ==
    /\ ParserParked
    /\ ScorerParked
    /\ config \in {ScoreConfig("a4", "key", TRUE), ScoreConfig("a4", "", TRUE)}
                    \cup {StatsConfig(c) : c \in {"a3", "a9", Undefined}}
    /\ toolFailures = {}
    /\ messages = <<>>
    /\ AskParked

StatsNext ==
    \/ AskBegin(Question)
    \/ \E n \in 1..2 : MemberReply(n)
    \/ ChairCall
    \/ ChairReply
    \/ SecretaryReply
    \/ CmdStats
    \/ CmdNew

SpecStats == StatsInit /\ [][StatsNext]_vars

\* the updateAgentStats calls of the step just taken that name the agent
\* and, in CallsWith, the verdict
CallsFor(calls, id) ==
    Cardinality({n \in 1..Len(calls) : IdOf(calls[n]) = id})

CallsWith(calls, id, verdict) ==
    Cardinality({n \in 1..Len(calls) :
                    IdOf(calls[n]) = id /\ VerdictOf(calls[n]) = verdict})

\* the counters of an agent, zeros when it has no record
CountersOf(s, id) == IF id \in DOMAIN s THEN s[id] ELSE ZeroStats

StatIds == {"a1", "a2", "a3", "a4", "a9"}

Unparseable(raw) == extractJson(raw) = Null /\ ~JsonParse(raw).ok

\* C32: when the secretary's response is a provider error, is empty, or is
\* read neither by the balanced-brace scan nor by JSON.parse of the whole
\* text, the evaluation leaves every agent's record and the statistics file
\* as they were and raises nothing into the ask; and an agent whose entries
\* in a parsed object carry no value among accepted, partial and rejected
\* keeps its counters.
C32_NothingCountedOnFailure ==
    [][scorer.pc = "running" /\ scorer'.pc = "settled"
         => LET raw == Trim(scorer'.response.text)
                entries == scorer'.read
            IN  /\ pc' = pc /\ askResult' = askResult
                /\ (scorer'.response.error # "" \/ raw = <<>> \/ Unparseable(raw))
                       => stats' = stats /\ statsFile' = statsFile
                /\ \A id \in StatIds :
                       (\A n \in 1..Len(entries) :
                            entries[n][1] = <<id>>
                                => ~("str" \in DOMAIN entries[n][2]
                                     /\ entries[n][2].str \in Verdicts))
                           => CountersOf(stats', id) = CountersOf(stats, id)]_vars

\* C32 witness: the secretary answered with a text that is no JSON after an
\* earlier /stats had created the records; the evaluation ended with its
\* error event, the records are still zeros and the file has none.
C32_Witness ==
    /\ scorer.pc = "settled"
    /\ scorer.response.error = ""
    /\ scorer.response.text = <<"Done">>
    /\ scorer.events = <<[type |-> "error", message |-> "Secretary error"]>>
    /\ DOMAIN stats # {}
    /\ \A id \in DOMAIN stats : stats[id] = ZeroStats
    /\ statsFile = NoStats
    /\ pc = "done"

\* C33: Council.ask starts the evaluation only when the final response of
\* the chair carries no error; after a failed chair call the secretary is
\* not called and no counter changes.
C33_ScoredOnlyAfterSuccess ==
    scorer.pc # "idle"
        => /\ finalChairResponse.error = ""
           /\ askResult.chairResponse.error = ""

\* s.reduce((acc, curr) => acc + curr[field], 0) over Object.values(stats)
RECURSIVE SumOver(_, _, _)
SumOver(s, ids, field) ==
    IF ids = {} THEN 0
    ELSE LET id == CHOOSE x \in ids : TRUE
         IN  s[id][field] + SumOver(s, ids \ {id}, field)

\* a number that need not be whole, as a fraction
Fraction(n, d) == [num |-> n, den |-> d]
SameNumber(x, y) == x.num * y.den = y.num * x.den

\* Council.getGlobalEfficiency(): (acceptedSuggestions / totalSuggestions) * 100
\* over the sums of all records, 0 when nothing was counted
getGlobalEfficiency(s) ==
    LET totalSuggestions == SumOver(s, DOMAIN s, "totalSuggestions")
        acceptedSuggestions == SumOver(s, DOMAIN s, "acceptedSuggestions")
    IN  IF totalSuggestions > 0
        THEN Fraction(acceptedSuggestions * 100, totalSuggestions)
        ELSE Fraction(0, 1)

\* cmdStats: score = accepted + partial * 0.5, efficiency = score / total * 100
\* before it is rounded, here over the sums of all records
WeightedEfficiency(s) ==
    Fraction((2 * SumOver(s, DOMAIN s, "acceptedSuggestions")
              + SumOver(s, DOMAIN s, "partiallyAcceptedSuggestions")) * 100,
             2 * SumOver(s, DOMAIN s, "totalSuggestions"))

\* C34: whenever something has been counted, getGlobalEfficiency is
\* 100 x (accepted + 0.5 x partially accepted) / total over the sums of all
\* agents, the weighting of the per-agent percentage of /stats, and the
\* counters themselves are whole numbers.
C34_PartialWeighsHalf ==
    /\ \A id \in DOMAIN stats :
           \A field \in DOMAIN stats[id] : stats[id][field] \in Nat
    /\ SumOver(stats, DOMAIN stats, "totalSuggestions") > 0
           => SameNumber(getGlobalEfficiency(stats), WeightedEfficiency(stats))

\* C35: the statistics have no state that lives in memory only.  Between the
\* operations the file holds what the memory holds, and a record exists only
\* for an agent that a score event has counted; reading the statistics of an
\* agent that was never scored changes neither.
C35_NoMemoryOnlyState ==
    /\ statsFile = stats
    /\ \A id \in DOMAIN stats : stats[id].totalSuggestions >= 1

----------------------------------------------------------------------------
(* The operations behind a ToolManager call *)

\* the ToolManager methods a call of the method runs, itself included:
\* runDiagnostics writes, edits and reads a test file and runs two commands
\* through the methods of its own class; iosConfig goes to the file system
\* directly
Performs(method) ==
    IF method = "runDiagnostics"
    THEN {"runDiagnostics", "writeFile", "editFile", "readFile", "runCommand"}
    ELSE {method}

\* the methods run in the step just taken
Performed == UNION {Performs(toolCalls[n].method) : n \in 1..Len(toolCalls)}

\* C36: every permission flag gates its whole category.  While
\* allow_file_write is off no ToolManager.writeFile runs during the ask, and
\* likewise no editFile while allow_file_edit is off and no readFile while
\* allow_file_read is off, whatever the chair replies and however the other
\* flags are set.
C36_FlagsGateCategories ==
    /\ "writeFile" \in Performed => "allow_file_write" \in getPermissions(config)
    /\ "editFile" \in Performed => "allow_file_edit" \in getPermissions(config)
    /\ "readFile" \in Performed => "allow_file_read" \in getPermissions(config)

\* C37: the history gets an assistant message only for a reply the chair's
\* provider returned without error: once the ask has ended on a chair call
\* that failed, the history does not end with an assistant message.
C37_FailedReplyNotSaved ==
    (pc = "done" /\ finalChairResponse # NoResponse
     /\ finalChairResponse.error # "" /\ messages # <<>>)
        => messages[Len(messages)].role # "assistant"

\* the agents that took part in the question: the members that were asked,
\* the acting chair and the secretary
Participants ==
    {councilMembers[n] : n \in 1..Len(councilMembers)}
        \cup {chairAgent, config.secretaryAgentId}

\* C38: scoring counts only for agents that took part in the scored
\* question: whatever the secretary returns, an entry whose key is none of
\* the members asked, the acting chair and the secretary changes no counter.
C38_OnlyParticipantsCounted ==
    \A id \in DOMAIN stats :
        stats[id].totalSuggestions > 0 => id \in Participants

\* the history is empty after an ask has returned: /new has run since, and
\* no question has been asked after it
ResetSinceAnswer == pc = "done" /\ messages = <<>>

\* C39: a reset is not undone by an earlier question.  Once /new has cleared
\* the history and the statistics, every counter stays zero until a question
\* asked after it has been scored, also when the evaluation of a question
\* answered before the reset is still under way and settles afterwards.
C39_ResetNotUndone ==
    ResetSinceAnswer =>
        \A id \in DOMAIN stats : stats[id].totalSuggestions = 0

\* the prompt evaluateEfficiency builds for the secretary: the ids it
\* names for the advice, for the chairman (this.config.getChairId()) and for
\* the secretary itself
SecretaryPrompt ==
    [advice |-> [n \in 1..Len(councilResponses) |-> councilResponses[n].providerId],
     chairId |-> config.chairAgentId,
     secretaryId |-> config.secretaryAgentId]

\* C40: the chair id named in the secretary's prompt, under which the
\* chair's verdict is counted, is the id of the agent that produced the
\* chair answer of that ask, for every role configuration, also when the
\* configured chair id is unset or names a disabled or removed agent and the
\* first enabled agent acted as chair.
C40_PromptNamesActingChair ==
    scorer.pc = "running" =>
        /\ SecretaryPrompt.chairId = chairAgent
        /\ SecretaryPrompt.chairId = finalChairResponse.providerId

============================================================================
